---- MODULE Spec2Model ----
(***************************************************************************)
(* llmdoc: scanner (path matching, subfolder grouping, import resolution)  *)
(* and generation orchestrator.                                            *)
(*                                                                         *)
(* Strings are sequences of one-character strings, so that length, prefix  *)
(* and suffix tests and separator replacement are computed as the code     *)
(* computes them.                                                          *)
(***************************************************************************)
EXTENDS Integers, Sequences, FiniteSets, TLC

VARIABLES
    pc,          \* position of the modelled call
    files,       \* IndexedFile[]: the scanned files (scanResult.files)
    subfolders,  \* SubfolderConfig[]: the configured subfolders
    grouped,     \* grouped buckets, one per subfolder, in configuration order
    ungrouped,   \* IndexedFile[]: files of no subfolder
    disk,        \* the file system: absolute path of a file -> its content
    seedFiles,   \* resolveImportsForFiles: files of the outermost call
    importDepth, \* resolveImportsForFiles: depth of the outermost call
    callFiles,   \* files of the call being executed
    callAllFiles, \* allFiles of the call being executed
    callDepth,   \* depth of the call being executed
    imported,    \* the importedFiles of the calls executed so far, concatenated
    levels,      \* the number of calls that went past the depth guard
    unreadable,  \* the files of the disk readFileSync fails on
    config,      \* the validated configuration (its subfolders are above)
    dryRun,      \* DocumentationGenerator.dryRun
    llmService,  \* DocumentationGenerator.llmService is not null
    next,        \* generate: index of the subfolder being processed
    docs,        \* generate: docs
    estimates,   \* generate: estimates
    pending,     \* the generation call awaited, if any
    llmCalls,    \* the generation calls made, in order
    written,     \* the writeDoc calls made, in order
    total,       \* the aggregated estimate logged by a dry run, if any
    customPath,  \* run: options.config, if given
    rawConfig,   \* what loading the configuration file yields, if it loads
    env,         \* the environment variables that are set and not empty
    validated,   \* the result of validateConfig, if it returned
    errors,      \* the messages passed to logger.error, in order
    exitCode,    \* the exit status of the process, once it has ended
    args,        \* the arguments a function under test is called with
    outcome      \* what the calls of the function under test returned, in order

scanVars == <<files, subfolders, grouped, ungrouped>>
resolveVars == <<disk, seedFiles, importDepth, callFiles, callAllFiles,
                 callDepth, imported, levels>>
generateVars == <<unreadable, config, dryRun, llmService, next, docs, estimates,
                  pending, llmCalls, written, total>>
runVars == <<customPath, rawConfig, env, validated, errors, exitCode>>
callVars == <<args, outcome>>
vars == <<pc, scanVars, resolveVars, generateVars, runVars, callVars>>

(***************************************************************************)
(* Bounds                                                                  *)
(***************************************************************************)
MaxFiles == 3
MaxSubfolders == 2
MaxImports == 3     \* import statements in the whole project
MaxDepth == 3       \* importDepth of a call (the schema allows 0..5)

(***************************************************************************)
(* String helpers                                                          *)
(***************************************************************************)
SLASH == "/"
BACKSLASH == "\\"

\* String.prototype.startsWith
StartsWith(s, p) ==
    /\ Len(p) <= Len(s)
    /\ SubSeq(s, 1, Len(p)) = p

\* String.prototype.endsWith
EndsWith(s, p) ==
    /\ Len(p) <= Len(s)
    /\ SubSeq(s, Len(s) - Len(p) + 1, Len(s)) = p

\* all bounded sequences over a set
SeqsUpTo(S, n) == UNION {[1..k -> S] : k \in 0..n}

\* bounded sequences without repetition
DistinctSeqsUpTo(S, n) ==
    {s \in SeqsUpTo(S, n) : \A i, j \in 1..Len(s) : i # j => s[i] # s[j]}


Range(s) == {s[i] : i \in 1..Len(s)}

(***************************************************************************)
(* scanner: normalizePath, belongsToSubfolder                              *)
(***************************************************************************)
\* mutant: only the first backslash is replaced
normalizePath_first(filePath) ==
    [i \in 1..Len(filePath) |->
        IF filePath[i] = BACKSLASH /\ \A j \in 1..(i - 1) : filePath[j] # BACKSLASH
        THEN SLASH ELSE filePath[i]]

\* filePath.split("\\").join("/")
normalizePath(filePath) ==
    [i \in 1..Len(filePath) |->
        IF filePath[i] = BACKSLASH THEN SLASH ELSE filePath[i]]

\* normalizedSubfolder.replace(/\/$/, ""): one trailing slash is removed
stripTrailingSlash(s) ==
    IF Len(s) > 0 /\ s[Len(s)] = SLASH THEN SubSeq(s, 1, Len(s) - 1) ELSE s

\* mutant: a shared string prefix is enough
belongsToSubfolder_prefix(filePath, subfolderPath) ==
    StartsWith(normalizePath(filePath), stripTrailingSlash(normalizePath(subfolderPath)))

belongsToSubfolder(filePath, subfolderPath) ==
    LET normalizedFile == normalizePath(filePath)
        normalizedSubfolder == normalizePath(subfolderPath)
        cleanSubfolder == stripTrailingSlash(normalizedSubfolder)
    IN  \/ StartsWith(normalizedFile, cleanSubfolder \o <<SLASH>>)
        \/ normalizedFile = cleanSubfolder

(***************************************************************************)
(* scanner: groupFilesBySubfolder                                          *)
(***************************************************************************)
\* [...subfolders].sort((a, b) => b.path.length - a.path.length), as the
\* sequence of subfolder indices; Array.prototype.sort is stable
RECURSIVE insertByLength(_, _, _)
insertByLength(subs, sorted, i) ==
    IF sorted = <<>> THEN <<i>>
    ELSE IF Len(subs[Head(sorted)].path) >= Len(subs[i].path)
         THEN <<Head(sorted)>> \o insertByLength(subs, Tail(sorted), i)
         ELSE <<i>> \o sorted

RECURSIVE sortSubfoldersFrom(_, _, _)
sortSubfoldersFrom(subs, sorted, i) ==
    IF i > Len(subs) THEN sorted
    ELSE sortSubfoldersFrom(subs, insertByLength(subs, sorted, i), i + 1)

\* mutant: the subfolders are tried in configuration order
sortedSubfolders_unsorted(subs) == [i \in 1..Len(subs) |-> i]

sortedSubfolders(subs) == sortSubfoldersFrom(subs, <<>>, 1)

\* the inner loop with its break: the first subfolder, in sorted order, the
\* file belongs to; 0 when it belongs to none
RECURSIVE firstMatch(_, _, _)
firstMatch(file, subs, order) ==
    IF order = <<>> THEN 0
    ELSE IF belongsToSubfolder(file.path, subs[Head(order)].path)
         THEN Head(order)
         ELSE firstMatch(file, subs, Tail(order))

\* mutant: the loop without its break pushes the file to every match
assignedTo_noBreak(file, subs) ==
    {k \in 1..Len(subs) : belongsToSubfolder(file.path, subs[k].path)}

\* the subfolders a file is pushed to
assignedTo(file, subs) ==
    LET m == firstMatch(file, subs, sortedSubfolders(subs))
    IN  IF m = 0 THEN {} ELSE {m}

RECURSIVE bucketOf(_, _, _)
bucketOf(fs, subs, k) ==
    IF fs = <<>> THEN <<>>
    ELSE IF k \in assignedTo(Head(fs), subs)
         THEN <<Head(fs)>> \o bucketOf(Tail(fs), subs, k)
         ELSE bucketOf(Tail(fs), subs, k)

\* assignedFiles: the paths of the files pushed to some bucket
assignedFiles(fs, subs) ==
    {fs[i].path : i \in {j \in 1..Len(fs) : assignedTo(fs[j], subs) # {}}}

RECURSIVE filterUnassigned(_, _)
filterUnassigned(fs, assigned) ==
    IF fs = <<>> THEN <<>>
    ELSE IF Head(fs).path \notin assigned
         THEN <<Head(fs)>> \o filterUnassigned(Tail(fs), assigned)
         ELSE filterUnassigned(Tail(fs), assigned)

groupFilesBySubfolder(fs, subs) ==
    [grouped   |-> [k \in 1..Len(subs) |-> bucketOf(fs, subs, k)],
     ungrouped |-> filterUnassigned(fs, assignedFiles(fs, subs))]

(***************************************************************************)
(* node:path on POSIX, for absolute paths written as strings               *)
(***************************************************************************)
DOT == "."
\* null: a value that is no string
NULL == <<"null">>

\* s.split("/")
RECURSIVE splitFrom(_, _, _)
splitFrom(s, i, cur) ==
    IF i > Len(s) THEN <<cur>>
    ELSE IF s[i] = SLASH
         THEN <<cur>> \o splitFrom(s, i + 1, <<>>)
         ELSE splitFrom(s, i + 1, Append(cur, s[i]))

splitPath(s) == splitFrom(s, 1, <<>>)

\* the segments of an absolute path once "", "." and ".." are resolved
RECURSIVE normalizeSegments(_, _)
normalizeSegments(segs, out) ==
    IF segs = <<>> THEN out
    ELSE LET h == Head(segs) IN
         IF h = <<>> \/ h = <<DOT>>
         THEN normalizeSegments(Tail(segs), out)
         ELSE IF h = <<DOT, DOT>>
              THEN normalizeSegments(Tail(segs),
                       IF out = <<>> THEN out ELSE SubSeq(out, 1, Len(out) - 1))
              ELSE normalizeSegments(Tail(segs), Append(out, h))

\* segs.join("/")
RECURSIVE joinSegments(_)
joinSegments(segs) ==
    IF segs = <<>> THEN <<>>
    ELSE IF Len(segs) = 1 THEN Head(segs)
         ELSE Head(segs) \o <<SLASH>> \o joinSegments(Tail(segs))

absoluteOf(segs) == <<SLASH>> \o joinSegments(segs)

\* path.resolve(from, to), from absolute
pathResolve(from, to) ==
    IF Len(to) > 0 /\ to[1] = SLASH
    THEN absoluteOf(normalizeSegments(splitPath(to), <<>>))
    ELSE absoluteOf(normalizeSegments(splitPath(from \o <<SLASH>> \o to), <<>>))

\* path.dirname of an absolute path
pathDirname(p) ==
    LET segs == normalizeSegments(splitPath(p), <<>>)
    IN  IF segs = <<>> THEN <<SLASH>>
        ELSE absoluteOf(SubSeq(segs, 1, Len(segs) - 1))

\* path.join(a, b), a absolute
pathJoin(a, b) == absoluteOf(normalizeSegments(splitPath(a \o <<SLASH>> \o b), <<>>))

RECURSIVE commonPrefixLen(_, _)
commonPrefixLen(a, b) ==
    IF a = <<>> \/ b = <<>> \/ Head(a) # Head(b) THEN 0
    ELSE 1 + commonPrefixLen(Tail(a), Tail(b))

\* path.relative(from, to), both absolute
pathRelative(from, to) ==
    LET f == normalizeSegments(splitPath(from), <<>>)
        t == normalizeSegments(splitPath(to), <<>>)
        c == commonPrefixLen(f, t)
        ups == [i \in 1..(Len(f) - c) |-> <<DOT, DOT>>]
    IN  joinSegments(ups \o SubSeq(t, c + 1, Len(t)))

(***************************************************************************)
(* The file system: dsk maps the absolute path of each regular file to its *)
(* content; the directories are the ancestors of the files.                *)
(***************************************************************************)
isFile(dsk, p) == p \in DOMAIN dsk

isDirectory(dsk, p) ==
    \/ p = <<SLASH>>
    \/ \E f \in DOMAIN dsk : StartsWith(f, p \o <<SLASH>>)

\* fs.existsSync: true of files and of directories
existsSync(dsk, p) == isFile(dsk, p) \/ isDirectory(dsk, p)

rootDir == <<SLASH, "r">>

(***************************************************************************)
(* scanner: extractImports.  A text is the sequence of its lines,          *)
(* [kind, text]: an import statement of one of the four shapes, text being *)
(* the quoted literal, or a line of kind "text" that is no import.  The    *)
(* four patterns are applied one after the other, each over the whole      *)
(* content.                                                                *)
(***************************************************************************)
RECURSIVE matchesOf(_, _)
matchesOf(content, kind) ==
    IF content = <<>> THEN <<>>
    ELSE IF Head(content).kind = kind
         THEN <<Head(content).text>> \o matchesOf(Tail(content), kind)
         ELSE matchesOf(Tail(content), kind)

extractImports(content) ==
    matchesOf(content, "import") \o matchesOf(content, "dynamic")
        \o matchesOf(content, "require") \o matchesOf(content, "export")

(***************************************************************************)
(* scanner: resolveImportPath                                              *)
(***************************************************************************)
EXT_TS  == <<DOT, "t", "s">>
EXT_TSX == <<DOT, "t", "s", "x">>
EXT_JS  == <<DOT, "j", "s">>
EXT_JSX == <<DOT, "j", "s", "x">>

extensions == <<EXT_TS, EXT_TSX, EXT_JS, EXT_JSX, <<>> >>
indexFiles == <<<<"i", "n", "d", "e", "x">> \o EXT_TS,
                <<"i", "n", "d", "e", "x">> \o EXT_TSX,
                <<"i", "n", "d", "e", "x">> \o EXT_JS,
                <<"i", "n", "d", "e", "x">> \o EXT_JSX>>

\* mutant: the .js extension of the import is kept
stripJsExtension_kept(p) == p

\* resolvedPath.replace(/\.js$/, "")
stripJsExtension(p) ==
    IF EndsWith(p, EXT_JS) THEN SubSeq(p, 1, Len(p) - Len(EXT_JS)) ELSE p

\* the first candidate of the list that exists, NULL when none does
RECURSIVE firstExisting(_, _)
firstExisting(dsk, candidates) ==
    IF candidates = <<>> THEN NULL
    ELSE IF existsSync(dsk, Head(candidates)) THEN Head(candidates)
         ELSE firstExisting(dsk, Tail(candidates))

resolveImportPath(dsk, importPath, fromFile) ==
    IF ~StartsWith(importPath, <<DOT>>) /\ ~StartsWith(importPath, <<SLASH>>)
    THEN NULL
    ELSE LET fromDir == pathDirname(pathResolve(rootDir, fromFile))
             resolvedPath == stripJsExtension(pathResolve(fromDir, importPath))
             direct == firstExisting(dsk,
                          [i \in 1..Len(extensions) |-> resolvedPath \o extensions[i]])
             index == firstExisting(dsk,
                          [i \in 1..Len(indexFiles) |-> pathJoin(resolvedPath, indexFiles[i])])
         IN  IF direct # NULL THEN pathRelative(rootDir, direct)
             ELSE IF index # NULL THEN pathRelative(rootDir, index)
             ELSE NULL

(***************************************************************************)
(* scanner: resolveImportsForFiles                                         *)
(***************************************************************************)
\* allFiles.find((f) => normalizePath(f.path) === normalizedResolved):
\* the index of the first such file, 0 when there is none
RECURSIVE findIndex(_, _, _)
findIndex(fs, normalizedResolved, i) ==
    IF i > Len(fs) THEN 0
    ELSE IF normalizePath(fs[i].path) = normalizedResolved THEN i
         ELSE findIndex(fs, normalizedResolved, i + 1)

\* the body of the inner loop for one import of one file; acc holds
\* importedFiles and processedImports
resolveOneImport(dsk, fs, all, file, importPath, acc) ==
    LET allFilePaths == {normalizePath(all[i].path) : i \in 1..Len(all)}
        currentFilePaths == {normalizePath(fs[i].path) : i \in 1..Len(fs)}
        resolvedPath == resolveImportPath(dsk, importPath, file.path)
    IN  IF resolvedPath = NULL \/ resolvedPath = <<>> THEN acc
        ELSE
        LET normalizedResolved == normalizePath(resolvedPath)
            found == findIndex(all, normalizedResolved, 1)
            absolutePath == pathResolve(rootDir, resolvedPath)
            processed == acc.processedImports \cup {normalizedResolved}
        IN  IF \/ normalizedResolved \in currentFilePaths
               \/ normalizedResolved \in acc.processedImports
            THEN acc
            ELSE IF found # 0
            THEN [importedFiles |-> Append(acc.importedFiles, all[found]),
                  processedImports |-> processed]
            ELSE IF normalizedResolved \in allFilePaths /\ isFile(dsk, absolutePath)
            THEN [importedFiles |-> Append(acc.importedFiles,
                                      [path |-> normalizedResolved,
                                       content |-> dsk[absolutePath]]),
                  processedImports |-> processed]
            ELSE [importedFiles |-> acc.importedFiles,
                  processedImports |-> processed]

RECURSIVE resolveImportsOfFile(_, _, _, _, _, _)
resolveImportsOfFile(dsk, fs, all, file, imports, acc) ==
    IF imports = <<>> THEN acc
    ELSE resolveImportsOfFile(dsk, fs, all, file, Tail(imports),
             resolveOneImport(dsk, fs, all, file, Head(imports), acc))

RECURSIVE resolveFilesFrom(_, _, _, _, _)
resolveFilesFrom(dsk, fs, all, i, acc) ==
    IF i > Len(fs) THEN acc
    ELSE resolveFilesFrom(dsk, fs, all, i + 1,
             resolveImportsOfFile(dsk, fs, all, fs[i],
                                  extractImports(fs[i].content), acc))

\* the importedFiles of one call: the outer loop over files
importedFilesOf(dsk, fs, all) ==
    resolveFilesFrom(dsk, fs, all, 1,
        [importedFiles |-> <<>>, processedImports |-> {}]).importedFiles

\* mutant: a call at depth 0 resolves one level
depthExhausted_negative(d) == d < 0

\* if (depth <= 0) return []
depthExhausted(d) == d <= 0

\* mutant: the recursion stops one level early
recurses_early(importedFiles, d) == Len(importedFiles) > 0 /\ d > 2

\* the condition of the recursive call
recurses(importedFiles, d) == Len(importedFiles) > 0 /\ d > 1

\* mutant: the recursive call does not consume depth
nextDepth_same(d) == d

\* the depth passed to the recursive call
nextDepth(d) == d - 1

RECURSIVE resolveImportsForFiles(_, _, _, _)
resolveImportsForFiles(dsk, fs, all, d) ==
    IF depthExhausted(d) THEN <<>>
    ELSE CHOOSE result \in
             {IF recurses(importedFiles, d)
              THEN importedFiles \o
                   resolveImportsForFiles(dsk, importedFiles, all \o importedFiles,
                                          nextDepth(d))
              ELSE importedFiles :
                  importedFiles \in {importedFilesOf(dsk, fs, all)}} : TRUE

(***************************************************************************)
(* utils/tokens: estimateTokens, getTokenEstimate, aggregateEstimates.     *)
(* A text is given by its length.  Prices are in 1/10000 dollar per        *)
(* million tokens, costs in 1/10000 dollar per million (cost * 10^10),     *)
(* usage percents in tenths of a percent.                                  *)
(***************************************************************************)
\* an optional value is a sequence of at most one element
UNDEFINED == <<>>
Some(v) == <<v>>

\* TOKENS_PER_CHAR, in hundredths
TOKENS_PER_CHAR_code == 35
TOKENS_PER_CHAR_prose == 25

\* mutant: Math.floor instead of Math.ceil
ceilDiv_floor(a, b) == a \div b

\* Math.ceil(a / b) for a >= 0, b > 0
ceilDiv(a, b) == (a + b - 1) \div b

\* Math.round(a / b) for a >= 0, b > 0: halves are rounded up
roundDiv(a, b) == (2 * a + b) \div (2 * b)

\* Math.ceil(content.length * ratio)
estimateTokens(length, isCode) ==
    LET ratio == IF isCode THEN TOKENS_PER_CHAR_code ELSE TOKENS_PER_CHAR_prose
    IN  ceilDiv(length * ratio, 100)

\* the pricing table, in declaration order
MODEL_PRICING ==
  <<
    [key |-> <<"g", "p", "t", "-", "5">>,
     input |-> 12500, output |-> 100000, context |-> 400000],
    [key |-> <<"g", "p", "t", "-", "5", "-", "m", "i", "n", "i">>,
     input |-> 2500, output |-> 20000, context |-> 400000],
    [key |-> <<"o", "1", "-", "p", "r", "e", "v", "i", "e", "w">>,
     input |-> 150000, output |-> 600000, context |-> 128000],
    [key |-> <<"o", "1", "-", "m", "i", "n", "i">>,
     input |-> 30000, output |-> 120000, context |-> 128000],
    [key |-> <<"g", "p", "t", "-", "4", "o">>,
     input |-> 25000, output |-> 100000, context |-> 128000],
    [key |-> <<"g", "p", "t", "-", "4", "o", "-", "m", "i", "n", "i">>,
     input |-> 1500, output |-> 6000, context |-> 128000],
    [key |-> <<"g", "p", "t", "-", "4", "-", "t", "u", "r", "b", "o">>,
     input |-> 100000, output |-> 300000, context |-> 128000],
    [key |-> <<"c", "l", "a", "u", "d", "e", "-", "4", "-", "5", "-", "o", "p", "u", "s">>,
     input |-> 50000, output |-> 250000, context |-> 200000],
    [key |-> <<"c", "l", "a", "u", "d", "e", "-", "4", "-", "5", "-", "s", "o", "n", "n", "e", "t">>,
     input |-> 30000, output |-> 150000, context |-> 200000],
    [key |-> <<"c", "l", "a", "u", "d", "e", "-", "3", "-", "5", "-", "s", "o", "n", "n", "e", "t", "-", "2", "0", "2", "4", "1", "0", "2", "2">>,
     input |-> 30000, output |-> 150000, context |-> 200000],
    [key |-> <<"c", "l", "a", "u", "d", "e", "-", "3", "-", "5", "-", "h", "a", "i", "k", "u", "-", "2", "0", "2", "4", "1", "0", "2", "2">>,
     input |-> 8000, output |-> 40000, context |-> 200000],
    [key |-> <<"c", "l", "a", "u", "d", "e", "-", "3", "-", "o", "p", "u", "s", "-", "2", "0", "2", "4", "0", "2", "2", "9">>,
     input |-> 150000, output |-> 750000, context |-> 200000],
    [key |-> <<"g", "e", "m", "i", "n", "i", "-", "3", "-", "p", "r", "o">>,
     input |-> 20000, output |-> 120000, context |-> 1000000],
    [key |-> <<"g", "e", "m", "i", "n", "i", "-", "2", ".", "5", "-", "p", "r", "o">>,
     input |-> 12500, output |-> 100000, context |-> 1000000],
    [key |-> <<"g", "e", "m", "i", "n", "i", "-", "2", ".", "5", "-", "f", "l", "a", "s", "h">>,
     input |-> 3000, output |-> 25000, context |-> 1000000],
    [key |-> <<"g", "e", "m", "i", "n", "i", "-", "1", ".", "5", "-", "p", "r", "o">>,
     input |-> 12500, output |-> 50000, context |-> 2000000],
    [key |-> <<"g", "e", "m", "i", "n", "i", "-", "1", ".", "5", "-", "f", "l", "a", "s", "h">>,
     input |-> 750, output |-> 3000, context |-> 1000000],
    [key |-> <<"g", "e", "m", "i", "n", "i", "-", "1", ".", "5", "-", "f", "l", "a", "s", "h", "-", "8", "b">>,
     input |-> 375, output |-> 1500, context |-> 1000000],
    [key |-> <<"m", "i", "s", "t", "r", "a", "l", "-", "l", "a", "r", "g", "e", "-", "l", "a", "t", "e", "s", "t">>,
     input |-> 20000, output |-> 60000, context |-> 128000],
    [key |-> <<"m", "i", "s", "t", "r", "a", "l", "-", "n", "e", "m", "o">>,
     input |-> 1500, output |-> 1500, context |-> 128000]
  >>

lowerCaseOf ==
    ("A" :> "a") @@ ("B" :> "b") @@ ("C" :> "c") @@ ("D" :> "d") @@ ("E" :> "e") @@ ("F" :> "f") @@ ("G" :> "g") @@ ("H" :> "h") @@ ("I" :> "i") @@ ("J" :> "j") @@ ("K" :> "k") @@ ("L" :> "l") @@ ("M" :> "m") @@
    ("N" :> "n") @@ ("O" :> "o") @@ ("P" :> "p") @@ ("Q" :> "q") @@ ("R" :> "r") @@ ("S" :> "s") @@ ("T" :> "t") @@ ("U" :> "u") @@ ("V" :> "v") @@ ("W" :> "w") @@ ("X" :> "x") @@ ("Y" :> "y") @@ ("Z" :> "z")

\* String.prototype.toLowerCase
toLowerCase(s) ==
    [i \in 1..Len(s) |-> IF s[i] \in DOMAIN lowerCaseOf THEN lowerCaseOf[s[i]] ELSE s[i]]

\* String.prototype.includes
includes(s, sub) ==
    \E i \in 0..(Len(s) - Len(sub)) : SubSeq(s, i + 1, i + Len(sub)) = sub

\* MODEL_PRICING[model]: the index of the entry of that key, 0 when none
RECURSIVE exactPricing(_, _)
exactPricing(model, i) ==
    IF i > Len(MODEL_PRICING) THEN 0
    ELSE IF MODEL_PRICING[i].key = model THEN i
         ELSE exactPricing(model, i + 1)

\* mutant: the loop without its break, the last match wins
partialPricing_last(modelLower, i) ==
    IF \A k \in i..Len(MODEL_PRICING) :
           /\ ~includes(modelLower, toLowerCase(MODEL_PRICING[k].key))
           /\ ~includes(toLowerCase(MODEL_PRICING[k].key), modelLower)
    THEN 0
    ELSE CHOOSE k \in i..Len(MODEL_PRICING) :
             /\ \/ includes(modelLower, toLowerCase(MODEL_PRICING[k].key))
                \/ includes(toLowerCase(MODEL_PRICING[k].key), modelLower)
             /\ \A j \in (k + 1)..Len(MODEL_PRICING) :
                    /\ ~includes(modelLower, toLowerCase(MODEL_PRICING[j].key))
                    /\ ~includes(toLowerCase(MODEL_PRICING[j].key), modelLower)

\* the loop over Object.entries(MODEL_PRICING) with its break
RECURSIVE partialPricing(_, _)
partialPricing(modelLower, i) ==
    IF i > Len(MODEL_PRICING) THEN 0
    ELSE IF \/ includes(modelLower, toLowerCase(MODEL_PRICING[i].key))
            \/ includes(toLowerCase(MODEL_PRICING[i].key), modelLower)
         THEN i
         ELSE partialPricing(modelLower, i + 1)

\* mutant: a model without an entry is priced as the sixth entry
pricingOf_fallback(model) ==
    IF model = <<>> THEN 0
    ELSE IF exactPricing(model, 1) # 0 THEN exactPricing(model, 1)
         ELSE IF partialPricing(toLowerCase(model), 1) # 0
              THEN partialPricing(toLowerCase(model), 1)
              ELSE 6

\* the pricing entry used for a model, 0 when none
pricingOf(model) ==
    IF model = <<>> THEN 0
    ELSE IF exactPricing(model, 1) # 0 THEN exactPricing(model, 1)
         ELSE partialPricing(toLowerCase(model), 1)

\* the thresholds 80 and 95 of contextUsagePercent, in tenths of a percent
HIGH_USAGE == 800
CRITICAL_USAGE == 950

\* the warning of getTokenEstimate: the first branch that applies
warningOf(contextUsagePercent) ==
    IF contextUsagePercent > HIGH_USAGE THEN Some("High context usage")
    ELSE IF contextUsagePercent > CRITICAL_USAGE THEN Some("Critical")
    ELSE UNDEFINED

getTokenEstimate(length, model, isCode) ==
    LET tokens == estimateTokens(length, isCode)
        p == pricingOf(model)
    IN  IF p = 0
        THEN [characters |-> length, tokens |-> tokens,
              estimatedCost |-> UNDEFINED, contextWindow |-> UNDEFINED,
              contextUsagePercent |-> UNDEFINED, warning |-> UNDEFINED]
        ELSE LET percent == roundDiv(tokens * 1000, MODEL_PRICING[p].context)
             IN  [characters |-> length, tokens |-> tokens,
                  estimatedCost |-> Some(tokens * MODEL_PRICING[p].input),
                  contextWindow |-> Some(MODEL_PRICING[p].context),
                  contextUsagePercent |-> Some(percent),
                  warning |-> warningOf(percent)]

RECURSIVE sumOf(_, _)
sumOf(ests, field) ==
    IF ests = <<>> THEN 0
    ELSE Head(ests)[field] + sumOf(Tail(ests), field)

\* the sum of the costs that are defined
RECURSIVE sumOfCosts(_)
sumOfCosts(ests) ==
    IF ests = <<>> THEN 0
    ELSE (IF Head(ests).estimatedCost = UNDEFINED THEN 0
          ELSE Head(ests).estimatedCost[1])
         + sumOfCosts(Tail(ests))

\* mutant: the last estimate with a context window is taken
RECURSIVE firstWithContext_last(_, _)
firstWithContext_last(ests, i) ==
    IF i > Len(ests) THEN 0
    ELSE IF firstWithContext_last(ests, i + 1) # 0 THEN firstWithContext_last(ests, i + 1)
         ELSE IF ests[i].contextWindow # UNDEFINED THEN i ELSE 0

\* estimates.find((e) => e.contextWindow): the index, 0 when none
RECURSIVE firstWithContext(_, _)
firstWithContext(ests, i) ==
    IF i > Len(ests) THEN 0
    ELSE IF ests[i].contextWindow # UNDEFINED /\ ests[i].contextWindow # <<0>>
         THEN i
         ELSE firstWithContext(ests, i + 1)

aggregateEstimates(ests) ==
    LET tokens == sumOf(ests, "tokens")
        w == firstWithContext(ests, 1)
    IN  IF w = 0
        THEN [characters |-> sumOf(ests, "characters"), tokens |-> tokens,
              estimatedCost |-> Some(sumOfCosts(ests)),
              contextWindow |-> UNDEFINED, contextUsagePercent |-> UNDEFINED,
              warning |-> UNDEFINED]
        ELSE LET percent == roundDiv(tokens * 1000, ests[w].contextWindow[1])
             IN  [characters |-> sumOf(ests, "characters"), tokens |-> tokens,
                  estimatedCost |-> Some(sumOfCosts(ests)),
                  contextWindow |-> ests[w].contextWindow,
                  contextUsagePercent |-> Some(percent),
                  warning |-> IF percent > HIGH_USAGE
                              THEN Some("High context usage") ELSE UNDEFINED]

(***************************************************************************)
(* glob(pattern, {cwd, ignore, nodir}): "*" matches within a path segment, *)
(* a segment "**" matches any number of directories.                       *)
(***************************************************************************)
STAR == "*"

\* a pattern segment against a path segment
RECURSIVE segmentMatches(_, _)
segmentMatches(p, s) ==
    IF p = <<>> THEN s = <<>>
    ELSE IF Head(p) = STAR
         THEN \/ segmentMatches(Tail(p), s)
              \/ (s # <<>> /\ segmentMatches(p, Tail(s)))
         ELSE s # <<>> /\ Head(p) = Head(s) /\ segmentMatches(Tail(p), Tail(s))

RECURSIVE segmentsMatch(_, _)
segmentsMatch(ps, ss) ==
    IF ps = <<>> THEN ss = <<>>
    ELSE IF Head(ps) = <<STAR, STAR>>
         THEN \/ segmentsMatch(Tail(ps), ss)
              \/ (ss # <<>> /\ segmentsMatch(ps, Tail(ss)))
         ELSE /\ ss # <<>>
              /\ segmentMatches(Head(ps), Head(ss))
              /\ segmentsMatch(Tail(ps), Tail(ss))

globMatches(pattern, path) == segmentsMatch(splitPath(pattern), splitPath(path))

\* the root-relative paths of the files below rootDir, in the order glob
\* lists them
RECURSIVE relativeFiles(_, _)
relativeFiles(dsk, listing) ==
    IF listing = <<>> THEN <<>>
    ELSE IF isFile(dsk, Head(listing)) /\ StartsWith(Head(listing), rootDir \o <<SLASH>>)
         THEN <<pathRelative(rootDir, Head(listing))>> \o relativeFiles(dsk, Tail(listing))
         ELSE relativeFiles(dsk, Tail(listing))

RECURSIVE globFrom(_, _, _)
globFrom(rels, pattern, ignore) ==
    IF rels = <<>> THEN <<>>
    ELSE IF /\ globMatches(pattern, Head(rels))
            /\ \A i \in 1..Len(ignore) : ~globMatches(ignore[i], Head(rels))
         THEN <<Head(rels)>> \o globFrom(Tail(rels), pattern, ignore)
         ELSE globFrom(Tail(rels), pattern, ignore)

glob(dsk, listing, pattern, ignore) == globFrom(relativeFiles(dsk, listing), pattern, ignore)

(***************************************************************************)
(* scanner: scanFiles, loadAdditionalFiles.  fsys is the file system:      *)
(* fsys.disk the files, fsys.listing the order glob lists them in,         *)
(* fsys.unreadable the files readFileSync fails on.                        *)
(***************************************************************************)
\* the loop over the matches of one include pattern
RECURSIVE scanMatches(_, _, _)
scanMatches(fsys, matches, acc) ==
    IF matches = <<>> THEN acc
    ELSE LET absolutePath == pathResolve(rootDir, Head(matches))
             relativePath == pathRelative(rootDir, absolutePath)
         IN  IF absolutePath \in fsys.unreadable
             THEN scanMatches(fsys, Tail(matches), acc)
             ELSE scanMatches(fsys, Tail(matches),
                      Append(acc, [path |-> normalizePath(relativePath),
                                   content |-> fsys.disk[absolutePath]]))

RECURSIVE scanPatterns(_, _, _, _)
scanPatterns(fsys, include, exclude, acc) ==
    IF include = <<>> THEN acc
    ELSE scanPatterns(fsys, Tail(include), exclude,
             scanMatches(fsys, glob(fsys.disk, fsys.listing, Head(include), exclude), acc))

\* Array.from(new Map(files.map((f) => [f.path, f])).values()): a path keeps
\* the position of its first occurrence and the record of its last one
lastIndexOf(fs, p) ==
    CHOOSE i \in 1..Len(fs) :
        fs[i].path = p /\ \A j \in (i + 1)..Len(fs) : fs[j].path # p

\* mutant: every pushed record is returned
uniqueFrom_all(fs, i, seen) == SubSeq(fs, i, Len(fs))

RECURSIVE uniqueFrom(_, _, _)
uniqueFrom(fs, i, seen) ==
    IF i > Len(fs) THEN <<>>
    ELSE IF fs[i].path \in seen THEN uniqueFrom(fs, i + 1, seen)
         ELSE <<fs[lastIndexOf(fs, fs[i].path)]>>
                  \o uniqueFrom(fs, i + 1, seen \cup {fs[i].path})

scanFiles(fsys, include, exclude) ==
    uniqueFrom(scanPatterns(fsys, include, exclude, <<>>), 1, {})

\* mutant: a file that cannot be read is loaded with an empty content
loadMatches_unskipped(fsys, matches, existingFiles, acc) ==
    acc \o [i \in 1..Len(matches) |-> [path |-> normalizePath(matches[i]), content |-> <<>>]]

\* the loop over the matches of one additionalFiles pattern
RECURSIVE loadMatches(_, _, _, _)
loadMatches(fsys, matches, existingFiles, acc) ==
    IF matches = <<>> THEN acc
    ELSE LET normalizedPath == normalizePath(Head(matches))
             absolutePath == pathResolve(rootDir, Head(matches))
         IN  IF normalizedPath \in existingFiles \/ absolutePath \in fsys.unreadable
             THEN loadMatches(fsys, Tail(matches), existingFiles, acc)
             ELSE loadMatches(fsys, Tail(matches), existingFiles,
                      Append(acc, [path |-> normalizedPath,
                                   content |-> fsys.disk[absolutePath]]))

RECURSIVE loadPatterns(_, _, _, _, _)
loadPatterns(fsys, patterns, exclude, existingFiles, acc) ==
    IF patterns = <<>> THEN acc
    ELSE loadPatterns(fsys, Tail(patterns), exclude, existingFiles,
             loadMatches(fsys, glob(fsys.disk, fsys.listing, Head(patterns), exclude),
                         existingFiles, acc))

loadAdditionalFiles(fsys, patterns, exclude, existingFiles) ==
    loadPatterns(fsys, patterns, exclude, existingFiles, <<>>)

(***************************************************************************)
(* Lengths of texts                                                        *)
(***************************************************************************)
\* the characters of one line of a source text
lineLength(line) ==
    CASE line.kind = "import"  -> Len("import \"") + Len(line.text) + Len("\";\n")
      [] line.kind = "dynamic" -> Len("import(\"") + Len(line.text) + Len("\");\n")
      [] line.kind = "require" -> Len("require(\"") + Len(line.text) + Len("\");\n")
      [] line.kind = "export"  -> Len("export * from \"") + Len(line.text) + Len("\";\n")
      [] OTHER                 -> Len(line.text)

\* content.length
RECURSIVE textLength(_)
textLength(content) ==
    IF content = <<>> THEN 0
    ELSE lineLength(Head(content)) + textLength(Tail(content))

\* the lengths of "\n\n", three backquotes, "typescript\n" and of "\n" and
\* three backquotes
CODE_FENCE_OPEN_LENGTH == 16
CODE_FENCE_CLOSE_LENGTH == 4

RECURSIVE formattedFilesLength(_)
formattedFilesLength(fs) ==
    IF fs = <<>> THEN 0
    ELSE Len("## File: ") + Len(Head(fs).path) + CODE_FENCE_OPEN_LENGTH
         + textLength(Head(fs).content) + CODE_FENCE_CLOSE_LENGTH
         + (IF Tail(fs) = <<>> THEN 0 ELSE Len("\n\n---\n\n"))
         + formattedFilesLength(Tail(fs))

\* formatFilesForLLM(files).length
formatFilesForLLM(fs) ==
    IF Len(fs) = 0 THEN Len("No files found.") ELSE formattedFilesLength(fs)

\* formatFilesWithContext(mainFiles, contextFiles).length
formatFilesWithContext(mainFiles, contextFiles) ==
    (IF Len(mainFiles) > 0
     THEN Len("# Main Source Files\n\nThese are the primary files to document:\n\n")
          + formatFilesForLLM(mainFiles)
     ELSE 0)
    + (IF Len(contextFiles) > 0
       THEN Len("\n\n---\n\n# Context Files (Imports & Dependencies)\n\n")
            + Len("These files are imported/used by the main files. Use them for context to understand types, interfaces, and dependencies:\n\n")
            + formatFilesForLLM(contextFiles)
       ELSE 0)

\* (prompt + "\n\n" + filesContent + (existingDocs ? "\n\n" + existingDocs : "")).length
fullInputLength(prompt, filesContent, existingDocs) ==
    Len(prompt) + Len("\n\n") + filesContent
    + (IF existingDocs # UNDEFINED /\ textLength(existingDocs[1]) > 0
       THEN Len("\n\n") + textLength(existingDocs[1]) ELSE 0)

(***************************************************************************)
(* generator: readExistingDoc, writeDoc and the three generation targets   *)
(***************************************************************************)
README_MD == <<"R", "E", "A", "D", "M", "E", ".", "m", "d">>
API_REFERENCE_MD ==
    <<"a", "p", "i", "-", "r", "e", "f", "e", "r", "e", "n", "c", "e", ".", "m", "d">>

\* a text of one line
textOf(chars) == <<[kind |-> "text", text |-> chars]>>

DRY_RUN_CONTENT ==
    textOf(<<"[", "D", "R", "Y", " ", "R", "U", "N", " ", "-", " ", "N", "o", " ",
             "c", "o", "n", "t", "e", "n", "t", " ",
             "g", "e", "n", "e", "r", "a", "t", "e", "d", "]">>)

\* the content of the file when it exists (the inputs name no directory)
readExistingDoc(dsk, docPath) ==
    LET fullPath == pathResolve(rootDir, docPath)
    IN  IF isFile(dsk, fullPath) THEN Some(dsk[fullPath]) ELSE UNDEFINED

\* the disk after writeFileSync(fullPath, content)
writeDoc(dsk, outputPath, content) ==
    LET fullPath == pathResolve(rootDir, outputPath)
    IN  [q \in DOMAIN dsk \cup {fullPath} |-> IF q = fullPath THEN content ELSE dsk[q]]

RECURSIVE filterNotIn(_, _)
filterNotIn(fs, paths) ==
    IF fs = <<>> THEN <<>>
    ELSE IF Head(fs).path \notin paths
         THEN <<Head(fs)>> \o filterNotIn(Tail(fs), paths)
         ELSE filterNotIn(Tail(fs), paths)

rawPathsOf(fs) == {fs[i].path : i \in 1..Len(fs)}

\* mutant: the context files are left out of sourceFiles
sourceFilesOf_mainOnly(fs, contextFiles) == [i \in 1..Len(fs) |-> fs[i].path]

\* [...files, ...contextFiles].map((f) => f.path)
sourceFilesOf(fs, contextFiles) ==
    [i \in 1..(Len(fs) + Len(contextFiles)) |-> (fs \o contextFiles)[i].path]

\* generateSubfolderDoc up to the dryRun test: what is to be generated for a
\* subfolder with files
subfolderRequest(fsys, cfg, subfolder, fs, allFiles) ==
    LET prompt == IF subfolder.prompt # UNDEFINED THEN subfolder.prompt[1] ELSE cfg.prompt
        outputPath == IF subfolder.outputPath # UNDEFINED THEN subfolder.outputPath[1]
                      ELSE subfolder.path \o <<SLASH>> \o README_MD
        existingDocs == readExistingDoc(fsys.disk,
                            IF subfolder.existingDocs # UNDEFINED
                               /\ subfolder.existingDocs # <<<<>>>>
                            THEN subfolder.existingDocs[1] ELSE outputPath)
        includeImports == subfolder.includeImports # Some(FALSE)
        depth == IF subfolder.importDepth # UNDEFINED THEN subfolder.importDepth[1] ELSE 2
        importedContext ==
            IF includeImports
            THEN filterNotIn(resolveImportsForFiles(fsys.disk, fs, allFiles, depth),
                             rawPathsOf(fs))
            ELSE <<>>
        additionalFiles(imports) ==
            IF subfolder.additionalFiles # UNDEFINED /\ Len(subfolder.additionalFiles[1]) > 0
            THEN loadAdditionalFiles(fsys, subfolder.additionalFiles[1], cfg.exclude,
                                     rawPathsOf(fs) \cup rawPathsOf(imports))
            ELSE <<>>
        filesContent(contextFiles) ==
            IF Len(contextFiles) > 0 THEN formatFilesWithContext(fs, contextFiles)
            ELSE formatFilesForLLM(fs)
    IN  CHOOSE request \in
            {[method |-> "generateDocumentation",
              outputPath |-> outputPath,
              sourceFiles |-> sourceFilesOf(fs, contextFiles),
              estimate |-> getTokenEstimate(
                               fullInputLength(prompt, filesContent(contextFiles),
                                               existingDocs),
                               cfg.model, TRUE)] :
                 contextFiles \in {imports \o additionalFiles(imports) :
                                       imports \in {importedContext}}} : TRUE

\* generateUngroupedDocs up to the dryRun test
ungroupedRequest(fsys, cfg, fs) ==
    LET outputPath == cfg.outputDir \o <<SLASH>> \o API_REFERENCE_MD
        existingDocs == readExistingDoc(fsys.disk, outputPath)
    IN  [method |-> "generateApiReference",
         outputPath |-> outputPath,
         sourceFiles |-> sourceFilesOf(fs, <<>>),
         estimate |-> getTokenEstimate(
                          fullInputLength(cfg.prompt, formatFilesForLLM(fs), existingDocs),
                          cfg.model, TRUE)]

\* generateReadme up to the dryRun test
readmeRequest(fsys, cfg, allFiles) ==
    LET outputPath == README_MD
        existingReadme == readExistingDoc(fsys.disk, outputPath)
    IN  [method |-> "generateReadme",
         outputPath |-> outputPath,
         sourceFiles |-> sourceFilesOf(allFiles, <<>>),
         estimate |-> getTokenEstimate(
                          fullInputLength(cfg.prompt, formatFilesForLLM(allFiles), existingReadme),
                          cfg.model, TRUE)]

\* the doc record of a request
docOf(request, content) ==
    [outputPath |-> request.outputPath, content |-> content,
     sourceFiles |-> request.sourceFiles]

(***************************************************************************)
(* llm: LLMService.generateDocumentation on a response of the model        *)
(***************************************************************************)
\* the blocks of a response joined: strings and text blocks contribute
RECURSIVE joinBlocks(_)
joinBlocks(blocks) ==
    IF blocks = <<>> THEN <<>>
    ELSE (IF Head(blocks).type \in {"string", "text"} THEN Head(blocks).text ELSE <<>>)
         \o joinBlocks(Tail(blocks))

\* the returned string, UNDEFINED when generateDocumentation throws
generateDocumentation(response) ==
    CASE response.kind = "string" -> Some(textOf(response.text))
      [] response.kind = "blocks" -> Some(textOf(joinBlocks(response.blocks)))
      [] OTHER -> UNDEFINED

(***************************************************************************)
(* config: the schema, validateConfig, findConfigFile, loadConfig.  A raw  *)
(* configuration is a record whose optional fields are sequences of at     *)
(* most one element; temperatures are in tenths; baseUrl is left out.      *)
(***************************************************************************)
llmProviderSchema == {"openai", "anthropic", "google-genai"}

TEMPERATURE_MAX == 20
IMPORT_DEPTH_MAX == 5

\* llmConfigSchema accepts the llm block
llmConfigSchema(llm) ==
    /\ llm.provider \in llmProviderSchema
    /\ Len(llm.model) >= 1
    /\ llm.temperature # UNDEFINED =>
           llm.temperature[1] >= 0 /\ llm.temperature[1] <= TEMPERATURE_MAX
    /\ llm.maxTokens # UNDEFINED => llm.maxTokens[1] > 0

\* subfolderConfigSchema accepts the subfolder
subfolderConfigSchema(subfolder) ==
    /\ Len(subfolder.path) >= 1
    /\ subfolder.importDepth # UNDEFINED =>
           subfolder.importDepth[1] >= 0 /\ subfolder.importDepth[1] <= IMPORT_DEPTH_MAX

\* llmDocConfigSchema.parse(config) does not throw
llmDocConfigSchema(raw) ==
    /\ raw.llm # UNDEFINED
    /\ llmConfigSchema(raw.llm[1])
    /\ raw.subfolders # UNDEFINED =>
           \A i \in 1..Len(raw.subfolders[1]) : subfolderConfigSchema(raw.subfolders[1][i])

\* the first line of defaultConfig.prompt stands for the whole prompt
DEFAULT_PROMPT ==
    "You are a technical documentation expert generating markdown documentation for TypeScript source files."

defaultConfig ==
    [include |-> <<<<"*", "*", "/", "*", ".", "t", "s">>, <<"*", "*", "/", "*", ".", "t", "s", "x">>>>,
     exclude |-> <<<<"n", "o", "d", "e", "_", "m", "o", "d", "u", "l", "e", "s", "/", "*", "*">>,
                   <<"d", "i", "s", "t", "/", "*", "*">>,
                   <<"b", "u", "i", "l", "d", "/", "*", "*">>,
                   <<"*", "*", "/", "*", ".", "t", "e", "s", "t", ".", "t", "s">>,
                   <<"*", "*", "/", "*", ".", "s", "p", "e", "c", ".", "t", "s">>,
                   <<"*", "*", "/", "*", ".", "t", "e", "s", "t", ".", "t", "s", "x">>,
                   <<"*", "*", "/", "*", ".", "s", "p", "e", "c", ".", "t", "s", "x">>,
                   <<"*", "*", "/", "*", ".", "d", ".", "t", "s">>>>,
     outputDir |-> <<"d", "o", "c", "s", "/">>,
     prompt |-> DEFAULT_PROMPT]

\* mutant: a supplied exclude list is replaced by the default
orDefault_always(field, default) == Some(default)

\* field ?? default
orDefault(field, default) == IF field # UNDEFINED THEN field ELSE Some(default)

\* validateConfig(config): the validated configuration, UNDEFINED when the
\* schema throws
validateConfig(raw) ==
    IF ~llmDocConfigSchema(raw) THEN UNDEFINED
    ELSE Some([raw EXCEPT
                  !.include = orDefault(raw.include, defaultConfig.include),
                  !.exclude = orDefault(raw.exclude, defaultConfig.exclude),
                  !.outputDir = orDefault(raw.outputDir, defaultConfig.outputDir),
                  !.prompt = orDefault(raw.prompt, defaultConfig.prompt)])

CONFIG_FILES ==
    <<<<"l", "l", "m", "d", "o", "c", ".", "c", "o", "n", "f", "i", "g", ".", "t", "s">>,
      <<"l", "l", "m", "d", "o", "c", ".", "c", "o", "n", "f", "i", "g", ".", "j", "s">>,
      <<"l", "l", "m", "d", "o", "c", ".", "c", "o", "n", "f", "i", "g", ".", "m", "j", "s">>,
      <<"l", "l", "m", "d", "o", "c", ".", "c", "o", "n", "f", "i", "g", ".", "j", "s", "o", "n">>>>

\* findConfigFile(rootDir, customPath): the full path, NULL when none exists
findConfigFile(dsk, custom) ==
    IF custom # UNDEFINED /\ custom # Some(<<>>)
    THEN IF existsSync(dsk, pathResolve(rootDir, custom[1]))
         THEN pathResolve(rootDir, custom[1]) ELSE NULL
    ELSE firstExisting(dsk, [i \in 1..Len(CONFIG_FILES) |->
                                 pathResolve(rootDir, CONFIG_FILES[i])])

\* loadConfig: the validated configuration, or the message of the error thrown
loadConfig(dsk, custom, raw) ==
    IF findConfigFile(dsk, custom) = NULL
    THEN [config |-> UNDEFINED, error |-> "No config file found"]
    ELSE IF raw = UNDEFINED
    THEN [config |-> UNDEFINED, error |-> "Failed to load config file"]
    ELSE IF validateConfig(raw[1]) = UNDEFINED
    THEN [config |-> UNDEFINED, error |-> "Invalid config"]
    ELSE [config |-> validateConfig(raw[1]), error |-> ""]

(***************************************************************************)
(* llm: getApiKey and createLLMModel.  The environment is a function from  *)
(* the names of the variables that are set to their values.                *)
(***************************************************************************)
API_KEY_ENV_VARS ==
    [provider \in llmProviderSchema |->
        CASE provider = "openai" -> "OPENAI_API_KEY"
          [] provider = "anthropic" -> "ANTHROPIC_API_KEY"
          [] OTHER -> "GOOGLE_API_KEY"]

\* getApiKey(config): the key, UNDEFINED when it throws
getApiKey(llm, environment) ==
    IF llm.apiKey # UNDEFINED /\ llm.apiKey[1] # "" THEN Some(llm.apiKey[1])
    ELSE LET envVar == API_KEY_ENV_VARS[llm.provider]
         IN  IF envVar \in DOMAIN environment /\ environment[envVar] # ""
             THEN Some(environment[envVar])
             ELSE UNDEFINED

\* createLLMService(config): the message of the error thrown, "" when the
\* service is created
createLLMService(llm, environment) ==
    IF llm.provider \notin llmProviderSchema THEN "Unsupported LLM provider"
    ELSE IF getApiKey(llm, environment) = UNDEFINED THEN "No API key provided"
    ELSE ""

(***************************************************************************)
(* Inputs of the grouping specification                                    *)
(***************************************************************************)
P_s_a    == <<"s", "/", "a">>
P_s_p_b  == <<"s", "/", "p", "/", "b">>
P_sx_c   == <<"s", "x", "/", "c">>
\* a file whose path is the path of subfolder t
P_t      == <<"t">>
P_s_p_e  == <<"s", "\\", "p", "\\", "e">>

GroupFilePaths == {P_s_a, P_s_p_b, P_sx_c, P_t, P_s_p_e}

D_s      == <<"s">>
D_s_sl   == <<"s", "/">>
D_s_p    == <<"s", "/", "p">>
D_s_p_sl == <<"s", "/", "p", "/">>
D_s_p_bs == <<"s", "\\", "p">>
D_t      == <<"t">>
D_sx     == <<"s", "x">>

GroupSubfolderPaths == {D_s, D_s_sl, D_s_p, D_s_p_sl, D_s_p_bs, D_t, D_sx}

mkFile(p) == [path |-> p, content |-> <<>>]
mkSubfolder(p) ==
    [path |-> p, prompt |-> UNDEFINED, outputPath |-> UNDEFINED,
     existingDocs |-> UNDEFINED, includeImports |-> UNDEFINED,
     additionalFiles |-> UNDEFINED, importDepth |-> UNDEFINED]

mapSeq(s, Op(_)) == [i \in 1..Len(s) |-> Op(s[i])]

\* no run of the command line in progress, no function under test
NoRun ==
    /\ args = <<>>
    /\ outcome = <<>>
    /\ customPath = <<>>
    /\ rawConfig = <<>>
    /\ env = <<>>
    /\ validated = <<>>
    /\ errors = <<>>
    /\ exitCode = <<>>

\* no resolver call in progress
NoResolve ==
    /\ disk = <<>>
    /\ seedFiles = <<>>
    /\ importDepth = 0
    /\ callFiles = <<>>
    /\ callAllFiles = <<>>
    /\ callDepth = 0
    /\ imported = <<>>
    /\ levels = 0

\* no generator
NoGenerate ==
    /\ unreadable = {}
    /\ config = <<>>
    /\ dryRun = FALSE
    /\ llmService = FALSE
    /\ next = 0
    /\ docs = <<>>
    /\ estimates = <<>>
    /\ pending = UNDEFINED
    /\ llmCalls = <<>>
    /\ written = <<>>
    /\ total = UNDEFINED

(***************************************************************************)
(* Specification of groupFilesBySubfolder                                  *)
(***************************************************************************)
InitGroup ==
    /\ pc = "start"
    /\ files \in {mapSeq(ps, mkFile) : ps \in DistinctSeqsUpTo(GroupFilePaths, MaxFiles)}
    /\ subfolders \in {mapSeq(ps, mkSubfolder) : ps \in SeqsUpTo(GroupSubfolderPaths, MaxSubfolders)}
    /\ grouped = <<>>
    /\ ungrouped = <<>>
    /\ NoResolve
    /\ NoGenerate
    /\ NoRun

GroupFiles ==
    /\ pc = "start"
    /\ LET r == groupFilesBySubfolder(files, subfolders)
       IN  /\ grouped' = r.grouped
           /\ ungrouped' = r.ungrouped
    /\ pc' = "grouped"
    /\ UNCHANGED <<files, subfolders, resolveVars, generateVars, runVars,
                   callVars>>

NextGroup == GroupFiles

SpecGroup == InitGroup /\ [][NextGroup]_vars

(***************************************************************************)
(* Inputs of the resolver specification: three source files in rootDir     *)
(***************************************************************************)
R_a == <<"a">> \o EXT_TS
R_b == <<"b">> \o EXT_TS
R_c == <<"c">> \o EXT_TS

absPath(rel) == rootDir \o <<SLASH>> \o rel

I_a   == <<DOT, SLASH, "a">>
I_bjs == <<DOT, SLASH, "b">> \o EXT_JS
I_c   == <<DOT, SLASH, "c">>
I_pkg == <<"p", "k", "g">>

Statements ==
    {[kind |-> "import",  text |-> I_a],
     [kind |-> "import",  text |-> I_bjs],
     [kind |-> "require", text |-> I_c],
     [kind |-> "import",  text |-> I_pkg]}

\* the contents of a.ts, b.ts and c.ts, with MaxImports statements in all
Contents ==
    UNION {[1..l[1] -> Statements] \X [1..l[2] -> Statements] \X [1..l[3] -> Statements] :
              l \in {x \in (0..MaxImports) \X (0..MaxImports) \X (0..MaxImports) :
                        x[1] + x[2] + x[3] <= MaxImports}}

diskOf(cs, withC) ==
    IF withC
    THEN (absPath(R_a) :> cs[1]) @@ (absPath(R_b) :> cs[2]) @@ (absPath(R_c) :> cs[3])
    ELSE (absPath(R_a) :> cs[1]) @@ (absPath(R_b) :> cs[2])

Disks ==
    {diskOf(cs, TRUE) : cs \in Contents}
        \cup {diskOf(cs, FALSE) : cs \in {x \in Contents : x[3] = <<>>}}

\* the record scanFiles makes of a file of the disk
indexedFile(dsk, rel) == [path |-> rel, content |-> dsk[absPath(rel)]]

(***************************************************************************)
(* Specification of resolveImportsForFiles: one step per call              *)
(***************************************************************************)
InitResolve ==
    /\ pc = "call"
    /\ subfolders = <<>>
    /\ grouped = <<>>
    /\ ungrouped = <<>>
    /\ disk \in Disks
    /\ \E seedPaths \in {<<R_a>>, <<R_a, R_b>>} :
          seedFiles = [i \in 1..Len(seedPaths) |-> indexedFile(disk, seedPaths[i])]
    /\ \E knownPaths \in {<<R_a, R_b>>, <<R_a, R_b, R_c>>} :
          /\ \A i \in 1..Len(knownPaths) : isFile(disk, absPath(knownPaths[i]))
          /\ files = [i \in 1..Len(knownPaths) |-> indexedFile(disk, knownPaths[i])]
    /\ callAllFiles = files
    /\ importDepth \in 0..MaxDepth
    /\ callFiles = seedFiles
    /\ callDepth = importDepth
    /\ imported = <<>>
    /\ levels = 0
    /\ NoGenerate
    /\ NoRun

\* if (depth <= 0) return []
ReturnEmpty ==
    /\ pc = "call"
    /\ depthExhausted(callDepth)
    /\ pc' = "returned"
    /\ UNCHANGED <<scanVars, resolveVars, generateVars, runVars,
                   callVars>>

\* a call that finds files and calls itself on them
Recurse ==
    /\ pc = "call"
    /\ ~depthExhausted(callDepth)
    /\ LET importedFiles == importedFilesOf(disk, callFiles, callAllFiles)
       IN  /\ recurses(importedFiles, callDepth)
           /\ imported' = imported \o importedFiles
           /\ callFiles' = importedFiles
           /\ callAllFiles' = callAllFiles \o importedFiles
           /\ callDepth' = nextDepth(callDepth)
    /\ levels' = levels + 1
    /\ pc' = "call"
    /\ UNCHANGED <<scanVars, disk, seedFiles, importDepth, generateVars, runVars,
                   callVars>>

\* a call that returns its importedFiles
ReturnImported ==
    /\ pc = "call"
    /\ ~depthExhausted(callDepth)
    /\ LET importedFiles == importedFilesOf(disk, callFiles, callAllFiles)
       IN  /\ ~recurses(importedFiles, callDepth)
           /\ imported' = imported \o importedFiles
    /\ levels' = levels + 1
    /\ pc' = "returned"
    /\ UNCHANGED <<scanVars, disk, seedFiles, importDepth, callFiles,
                   callAllFiles, callDepth, generateVars, runVars,
                   callVars>>

NextResolve == ReturnEmpty \/ Recurse \/ ReturnImported

SpecResolve == InitResolve /\ [][NextResolve]_vars

(***************************************************************************)
(* Inputs of the generator specification: a project with the directories   *)
(* s and t, and an existing README.md                                      *)
(***************************************************************************)
G_sa == <<"s", "/", "a", ".", "t", "s">>
G_sb == <<"s", "/", "b", ".", "t", "s">>
G_tc == <<"t", "/", "c", ".", "t", "s">>
G_td == <<"t", "/", "d", ".", "t", "s">>
G_docs_s == <<"d", "o", "c", "s", "/", "s", ".", "m", "d">>

importLine(literal) == [kind |-> "import", text |-> literal]
requireLine(literal) == [kind |-> "require", text |-> literal]

L_b    == <<".", "/", "b">>
L_tc   == <<".", ".", "/", "t", "/", "c">>
L_tcjs == <<".", ".", "/", "t", "/", "c", ".", "j", "s">>
L_td   == <<".", ".", "/", "t", "/", "d">>
L_d    == <<".", "/", "d">>
L_c    == <<".", "/", "c">>
L_sa   == <<".", ".", "/", "s", "/", "a">>

OLD_README == textOf(<<"o", "l", "d">>)

sourceDisk(a, b, c, d) ==
    (absPath(G_sa) :> a) @@ (absPath(G_sb) :> b) @@ (absPath(G_tc) :> c)
        @@ (absPath(G_td) :> d) @@ (absPath(README_MD) :> OLD_README)

\* no imports
DiskPlain == sourceDisk(<<>>, <<>>, <<>>, <<>>)
\* a chain out of s into a cycle within t
DiskChain == sourceDisk(<<importLine(L_b)>>, <<importLine(L_tc)>>,
                        <<importLine(L_d)>>, <<importLine(L_c)>>)
\* two files of s import the same file of t, which imports back
DiskCycle == sourceDisk(<<importLine(L_tcjs), importLine(I_pkg)>>, <<requireLine(L_tc)>>,
                        <<importLine(L_sa)>>, <<>>)

\* a project: its files, the files that cannot be read, the exclude patterns
GenProjects ==
    {[disk |-> DiskPlain, unreadable |-> {}, exclude |-> <<>>],
     [disk |-> DiskChain, unreadable |-> {}, exclude |-> <<>>],
     [disk |-> DiskChain, unreadable |-> {absPath(G_sb)}, exclude |-> <<>>],
     [disk |-> DiskChain, unreadable |-> {}, exclude |-> <<G_td>>],
     [disk |-> DiskCycle, unreadable |-> {}, exclude |-> <<>>],
     [disk |-> DiskCycle, unreadable |-> {}, exclude |-> <<G_td>>]}

CUSTOM_CONFIG == <<"c", ".", "j", "s", "o", "n">>

\* the order glob lists the files in
GenListing ==
    <<absPath(G_sa), absPath(G_sb),
      absPath(D_s \o <<SLASH>> \o README_MD),
      absPath(G_tc), absPath(G_td),
      absPath(D_t \o <<SLASH>> \o README_MD),
      absPath(G_docs_s),
      absPath(<<"d", "o", "c", "s", "/", "a", "p", "i", "-", "r", "e", "f", "e", "r", "e", "n", "c", "e", ".", "m", "d">>),
      absPath(README_MD),
      absPath(CONFIG_FILES[1]), absPath(CONFIG_FILES[4]), absPath(CUSTOM_CONFIG)>>

STAR_STAR_TS  == <<"*", "*", "/", "*", ".", "t", "s">>
STAR_STAR_TSX == <<"*", "*", "/", "*", ".", "t", "s", "x">>
DOCS_DIR == <<"d", "o", "c", "s", "/">>

GenModels == {<<"g", "p", "t", "-", "4", "o", "-", "m", "i", "n", "i">>, <<"m", "y", "-", "m", "o", "d", "e", "l">>}

configOf(model, exclude) ==
    [model |-> model, prompt |-> "Document these files.",
     include |-> <<STAR_STAR_TS, STAR_STAR_TSX>>, exclude |-> exclude,
     outputDir |-> DOCS_DIR]

D_u == <<"u">>

GenSubfolders ==
    {mkSubfolder(D_s),
     [mkSubfolder(D_s) EXCEPT !.importDepth = Some(0)],
     [mkSubfolder(D_s_sl) EXCEPT !.includeImports = Some(FALSE),
                                 !.prompt = Some("Short."),
                                 !.outputPath = Some(G_docs_s),
                                 !.existingDocs = Some(README_MD)],
     [mkSubfolder(D_t) EXCEPT !.importDepth = Some(3),
                              !.additionalFiles = Some(<<<<"s", "/", "*">>, G_sa>>)],
     mkSubfolder(D_u)}

LLMResponses ==
    {[kind |-> "string", text |-> <<"d", "o", "c">>, blocks |-> <<>>],
     [kind |-> "blocks", text |-> <<>>,
      blocks |-> <<[type |-> "text", text |-> <<"d", "o">>],
                   [type |-> "image_url", text |-> <<>>],
                   [type |-> "string", text |-> <<"c", "s">>]>>],
     [kind |-> "other", text |-> <<>>, blocks |-> <<>>],
     [kind |-> "throw", text |-> <<>>, blocks |-> <<>>]}

fileSystem == [disk |-> disk, listing |-> GenListing, unreadable |-> unreadable]

(***************************************************************************)
(* Specification of scanProject followed by DocumentationGenerator.generate *)
(***************************************************************************)
InitGenerate ==
    /\ pc = "scan"
    /\ files = <<>>
    /\ grouped = <<>>
    /\ ungrouped = <<>>
    /\ seedFiles = <<>>
    /\ importDepth = 0
    /\ callFiles = <<>>
    /\ callAllFiles = <<>>
    /\ callDepth = 0
    /\ imported = <<>>
    /\ levels = 0
    /\ \E project \in GenProjects, model \in GenModels :
          /\ disk = project.disk
          /\ unreadable = project.unreadable
          /\ config = configOf(model, project.exclude)
    /\ subfolders \in SeqsUpTo(GenSubfolders, MaxSubfolders)
    /\ dryRun \in BOOLEAN
    /\ llmService \in BOOLEAN
    /\ next = 0
    /\ docs = <<>>
    /\ estimates = <<>>
    /\ pending = UNDEFINED
    /\ llmCalls = <<>>
    /\ written = <<>>
    /\ total = UNDEFINED
    /\ NoRun

resolveUnchanged == UNCHANGED <<seedFiles, importDepth, callFiles, callAllFiles,
                                callDepth, imported, levels>>

\* scanProject: scanFiles, then groupFilesBySubfolder
ScanProject ==
    /\ pc = "scan"
    /\ \E scanned \in {scanFiles(fileSystem, config.include, config.exclude)} :
       \E r \in {groupFilesBySubfolder(scanned, subfolders)} :
          /\ files' = scanned
          /\ grouped' = r.grouped
          /\ ungrouped' = r.ungrouped
    /\ pc' = "generate"
    /\ resolveUnchanged
    /\ UNCHANGED callVars
    /\ UNCHANGED runVars
    /\ UNCHANGED <<subfolders, disk, generateVars>>

\* mutant: the ungrouped step is left out
afterSubfolder_readme(k) == IF k < Len(subfolders) THEN "subfolder" ELSE "readme"

\* the position after the subfolder loop has processed subfolder k
afterSubfolder(k) == IF k < Len(subfolders) THEN "subfolder" ELSE "ungrouped"

\* mutant: the LLM service is never tested
serviceMissing_unchecked == FALSE

\* !this.dryRun && !this.llmService
serviceMissing == ~dryRun /\ ~llmService

\* generate() throws: no LLM service outside dry-run mode
GenerateWithoutService ==
    /\ pc = "generate"
    /\ serviceMissing
    /\ pc' = "failed"
    /\ resolveUnchanged
    /\ UNCHANGED callVars
    /\ UNCHANGED runVars
    /\ UNCHANGED <<scanVars, disk, generateVars>>

\* generate() enters the loop over scanResult.grouped
GenerateBegin ==
    /\ pc = "generate"
    /\ ~serviceMissing
    /\ next' = 1
    /\ pc' = afterSubfolder(0)
    /\ resolveUnchanged
    /\ UNCHANGED callVars
    /\ UNCHANGED runVars
    /\ UNCHANGED <<scanVars, disk, unreadable, config, dryRun, llmService, docs,
                   estimates, pending, llmCalls, written, total>>

\* mutant: a subfolder without files is documented like any other
noFiles_never(bucket) == FALSE

\* files.length === 0
noFiles(bucket) == Len(bucket) = 0

\* generateSubfolderDoc returns { doc: null }: the subfolder has no file
SubfolderSkip ==
    /\ pc = "subfolder"
    /\ noFiles(grouped[next])
    /\ next' = next + 1
    /\ pc' = afterSubfolder(next)
    /\ resolveUnchanged
    /\ UNCHANGED callVars
    /\ UNCHANGED runVars
    /\ UNCHANGED <<scanVars, disk, unreadable, config, dryRun, llmService, docs,
                   estimates, pending, llmCalls, written, total>>

\* generateSubfolderDoc in dry-run mode: the placeholder doc is pushed
SubfolderDryRun ==
    /\ pc = "subfolder"
    /\ ~noFiles(grouped[next])
    /\ dryRun
    /\ \E request \in {subfolderRequest(fileSystem, config, subfolders[next],
                                       grouped[next], files)} :
          /\ docs' = Append(docs, docOf(request, DRY_RUN_CONTENT))
          /\ estimates' = Append(estimates, request.estimate)
    /\ next' = next + 1
    /\ pc' = afterSubfolder(next)
    /\ resolveUnchanged
    /\ UNCHANGED callVars
    /\ UNCHANGED runVars
    /\ UNCHANGED <<scanVars, disk, unreadable, config, dryRun, llmService,
                   pending, llmCalls, written, total>>

\* generateSubfolderDoc awaits llmService.generateDocumentation
SubfolderInvoke ==
    /\ pc = "subfolder"
    /\ ~noFiles(grouped[next])
    /\ ~dryRun
    /\ \E request \in {subfolderRequest(fileSystem, config, subfolders[next],
                                       grouped[next], files)} :
          /\ pending' = Some(request)
          /\ llmCalls' = Append(llmCalls, [method |-> request.method,
                                            outputPath |-> request.outputPath])
    /\ pc' = "awaitSubfolder"
    /\ resolveUnchanged
    /\ UNCHANGED callVars
    /\ UNCHANGED runVars
    /\ UNCHANGED <<scanVars, disk, unreadable, config, dryRun, llmService, next,
                   docs, estimates, written, total>>

\* mutant: the doc is pushed but not written
generated_unwritten(content) ==
    /\ docs' = Append(docs, docOf(pending[1], content))
    /\ estimates' = Append(estimates, pending[1].estimate)
    /\ UNCHANGED <<disk, written>>
    /\ pending' = UNDEFINED

\* the docs, estimates, disk and writes once a generation call has returned
generated(content) ==
    /\ docs' = Append(docs, docOf(pending[1], content))
    /\ estimates' = Append(estimates, pending[1].estimate)
    /\ disk' = writeDoc(disk, pending[1].outputPath, content)
    /\ written' = Append(written, [outputPath |-> pending[1].outputPath,
                                   content |-> content])
    /\ pending' = UNDEFINED

\* the call returns: the doc is pushed and written
SubfolderReturn ==
    /\ pc = "awaitSubfolder"
    /\ \E response \in LLMResponses :
          /\ generateDocumentation(response) # UNDEFINED
          /\ generated(generateDocumentation(response)[1])
    /\ next' = next + 1
    /\ pc' = afterSubfolder(next)
    /\ resolveUnchanged
    /\ UNCHANGED callVars
    /\ UNCHANGED runVars
    /\ UNCHANGED <<scanVars, unreadable, config, dryRun, llmService, llmCalls, total>>

\* generateUngroupedDocs returns { doc: null }: there is no ungrouped file
UngroupedSkip ==
    /\ pc = "ungrouped"
    /\ Len(ungrouped) = 0
    /\ pc' = "readme"
    /\ resolveUnchanged
    /\ UNCHANGED callVars
    /\ UNCHANGED runVars
    /\ UNCHANGED <<scanVars, disk, generateVars>>

UngroupedDryRun ==
    /\ pc = "ungrouped"
    /\ Len(ungrouped) > 0
    /\ dryRun
    /\ \E request \in {ungroupedRequest(fileSystem, config, ungrouped)} :
          /\ docs' = Append(docs, docOf(request, DRY_RUN_CONTENT))
          /\ estimates' = Append(estimates, request.estimate)
    /\ pc' = "readme"
    /\ resolveUnchanged
    /\ UNCHANGED callVars
    /\ UNCHANGED runVars
    /\ UNCHANGED <<scanVars, disk, unreadable, config, dryRun, llmService, next,
                   pending, llmCalls, written, total>>

UngroupedInvoke ==
    /\ pc = "ungrouped"
    /\ Len(ungrouped) > 0
    /\ ~dryRun
    /\ \E request \in {ungroupedRequest(fileSystem, config, ungrouped)} :
          /\ pending' = Some(request)
          /\ llmCalls' = Append(llmCalls, [method |-> request.method,
                                            outputPath |-> request.outputPath])
    /\ pc' = "awaitUngrouped"
    /\ resolveUnchanged
    /\ UNCHANGED callVars
    /\ UNCHANGED runVars
    /\ UNCHANGED <<scanVars, disk, unreadable, config, dryRun, llmService, next,
                   docs, estimates, written, total>>

UngroupedReturn ==
    /\ pc = "awaitUngrouped"
    /\ \E response \in LLMResponses :
          /\ generateDocumentation(response) # UNDEFINED
          /\ generated(generateDocumentation(response)[1])
    /\ pc' = "readme"
    /\ resolveUnchanged
    /\ UNCHANGED callVars
    /\ UNCHANGED runVars
    /\ UNCHANGED <<scanVars, unreadable, config, dryRun, llmService, next,
                   llmCalls, total>>

\* generateReadme in dry-run mode, then the total of the estimates is logged
ReadmeDryRun ==
    /\ pc = "readme"
    /\ dryRun
    /\ \E request \in {readmeRequest(fileSystem, config, files)} :
          /\ docs' = Append(docs, docOf(request, DRY_RUN_CONTENT))
          /\ estimates' = Append(estimates, request.estimate)
          /\ total' = Some(aggregateEstimates(Append(estimates, request.estimate)))
    /\ pc' = "done"
    /\ resolveUnchanged
    /\ UNCHANGED callVars
    /\ UNCHANGED runVars
    /\ UNCHANGED <<scanVars, disk, unreadable, config, dryRun, llmService, next,
                   pending, llmCalls, written>>

ReadmeInvoke ==
    /\ pc = "readme"
    /\ ~dryRun
    /\ \E request \in {readmeRequest(fileSystem, config, files)} :
          /\ pending' = Some(request)
          /\ llmCalls' = Append(llmCalls, [method |-> request.method,
                                            outputPath |-> request.outputPath])
    /\ pc' = "awaitReadme"
    /\ resolveUnchanged
    /\ UNCHANGED callVars
    /\ UNCHANGED runVars
    /\ UNCHANGED <<scanVars, disk, unreadable, config, dryRun, llmService, next,
                   docs, estimates, written, total>>

ReadmeReturn ==
    /\ pc = "awaitReadme"
    /\ \E response \in LLMResponses :
          /\ generateDocumentation(response) # UNDEFINED
          /\ generated(generateDocumentation(response)[1])
    /\ pc' = "done"
    /\ resolveUnchanged
    /\ UNCHANGED callVars
    /\ UNCHANGED runVars
    /\ UNCHANGED <<scanVars, unreadable, config, dryRun, llmService, next,
                   llmCalls, total>>

\* mutant: the call that failed is made again
rejected_retried(position) ==
    CASE position = "awaitSubfolder" -> "subfolder"
      [] position = "awaitUngrouped" -> "ungrouped"
      [] OTHER -> "readme"

\* the position of generate() once an awaited call has thrown: nothing
\* catches the error, the promise of generate() rejects
rejected(position) == "failed"

\* the awaited call throws: generate() rejects, nothing of it runs any more
GenerationFails ==
    /\ pc \in {"awaitSubfolder", "awaitUngrouped", "awaitReadme"}
    /\ \E response \in LLMResponses : generateDocumentation(response) = UNDEFINED
    /\ pending' = UNDEFINED
    /\ pc' = rejected(pc)
    /\ resolveUnchanged
    /\ UNCHANGED callVars
    /\ UNCHANGED runVars
    /\ UNCHANGED <<scanVars, disk, unreadable, config, dryRun, llmService, next,
                   docs, estimates, llmCalls, written, total>>

NextGenerate ==
    \/ ScanProject
    \/ GenerateWithoutService
    \/ GenerateBegin
    \/ SubfolderSkip
    \/ SubfolderDryRun
    \/ SubfolderInvoke
    \/ SubfolderReturn
    \/ UngroupedSkip
    \/ UngroupedDryRun
    \/ UngroupedInvoke
    \/ UngroupedReturn
    \/ ReadmeDryRun
    \/ ReadmeInvoke
    \/ ReadmeReturn
    \/ GenerationFails

SpecGenerate == InitGenerate /\ [][NextGenerate]_vars

(***************************************************************************)
(* Specification of run(options), the command line: loadConfig,            *)
(* scanProject, createLLMService, DocumentationGenerator.generate, and the *)
(* catch block that reports the error and exits.                           *)
(***************************************************************************)
rawLlm(provider, model, apiKey) ==
    [provider |-> provider, model |-> model, apiKey |-> apiKey,
     temperature |-> UNDEFINED, maxTokens |-> UNDEFINED]

rawOf(llm, subfolderList) ==
    [llm |-> llm, prompt |-> UNDEFINED, include |-> UNDEFINED, exclude |-> UNDEFINED,
     subfolders |-> subfolderList, outputDir |-> UNDEFINED]

GPT == <<"g", "p", "t", "-", "4", "o", "-", "m", "i", "n", "i">>

\* what loading the config file yields; UNDEFINED when loading throws
RunRawConfigs ==
    {UNDEFINED,
     Some(rawOf(UNDEFINED, UNDEFINED)),
     Some(rawOf(Some(rawLlm("azure", GPT, Some("sk"))), UNDEFINED)),
     Some(rawOf(Some(rawLlm("openai", <<>>, Some("sk"))), UNDEFINED)),
     Some(rawOf(Some([rawLlm("openai", GPT, Some("sk")) EXCEPT !.temperature = Some(21)]),
                UNDEFINED)),
     Some(rawOf(Some(rawLlm("openai", GPT, Some("sk"))),
                Some(<<[mkSubfolder(D_s) EXCEPT !.importDepth = Some(6)]>>))),
     Some(rawOf(Some(rawLlm("openai", GPT, UNDEFINED)), UNDEFINED)),
     Some(rawOf(Some(rawLlm("google-genai", GPT, Some(""))),
                Some(<<mkSubfolder(D_s), mkSubfolder(D_t)>>))),
     Some([rawOf(Some([rawLlm("anthropic", GPT, Some("sk"))
                           EXCEPT !.temperature = Some(7), !.maxTokens = Some(1)]),
                 Some(<<mkSubfolder(D_s), mkSubfolder(D_u)>>))
              EXCEPT !.prompt = Some("Short."), !.exclude = Some(<<G_td>>),
                     !.outputDir = Some(<<"o", "u", "t">>)]),
     Some([rawOf(Some(rawLlm("openai", GPT, UNDEFINED)), UNDEFINED)
              EXCEPT !.include = Some(<<>>)]),
     Some([rawOf(Some(rawLlm("openai", GPT, Some("sk"))),
                 Some(<<[mkSubfolder(D_t) EXCEPT
                            !.additionalFiles = Some(<<<<"s", "/", "*">>, G_sa>>)]>>))
              EXCEPT !.include = Some(<<<<"t", "/", "*">>, STAR_STAR_TS>>)])}

EmptyDisk == absPath(README_MD) :> OLD_README

RunDisks == {DiskPlain, DiskChain, EmptyDisk}

configFile(name) == absPath(name) :> <<>>

\* the config files of the project and the --config option
RunConfigFiles ==
    {[files |-> <<>>, customPath |-> UNDEFINED],
     [files |-> configFile(CONFIG_FILES[1]), customPath |-> UNDEFINED],
     [files |-> configFile(CONFIG_FILES[4]), customPath |-> UNDEFINED],
     [files |-> configFile(CONFIG_FILES[4]), customPath |-> Some(<<>>)],
     [files |-> configFile(CUSTOM_CONFIG), customPath |-> Some(CUSTOM_CONFIG)],
     [files |-> configFile(CONFIG_FILES[1]), customPath |-> Some(CUSTOM_CONFIG)]}

RunEnvironments ==
    {<<>>,
     "OPENAI_API_KEY" :> "env-key",
     ("OPENAI_API_KEY" :> "") @@ ("GOOGLE_API_KEY" :> "env-key")}

InitRun ==
    /\ pc = "load"
    /\ seedFiles = <<>>
    /\ importDepth = 0
    /\ callFiles = <<>>
    /\ callAllFiles = <<>>
    /\ callDepth = 0
    /\ imported = <<>>
    /\ levels = 0
    /\ files = <<>>
    /\ subfolders = <<>>
    /\ grouped = <<>>
    /\ ungrouped = <<>>
    /\ \E project \in RunDisks, placed \in RunConfigFiles :
          /\ disk = project @@ placed.files
          /\ customPath = placed.customPath
    /\ unreadable \in {{}, {absPath(G_sb)}, {absPath(G_sa), absPath(G_sb)},
                      {absPath(G_sa), absPath(G_sb), absPath(G_tc), absPath(G_td)}}
    /\ rawConfig \in RunRawConfigs
    /\ env \in RunEnvironments
    /\ dryRun \in BOOLEAN
    /\ config = UNDEFINED
    /\ llmService = FALSE
    /\ next = 0
    /\ docs = <<>>
    /\ estimates = <<>>
    /\ pending = UNDEFINED
    /\ llmCalls = <<>>
    /\ written = <<>>
    /\ total = UNDEFINED
    /\ validated = UNDEFINED
    /\ errors = <<>>
    /\ exitCode = UNDEFINED
    /\ args = <<>>
    /\ outcome = UNDEFINED

\* the configuration as the scanner and the generator read it
generatorConfig(v) ==
    [model |-> v.llm[1].model, prompt |-> v.prompt[1], include |-> v.include[1],
     exclude |-> v.exclude[1], outputDir |-> v.outputDir[1]]

\* mutant: the process exits with status 1 whatever happened
exitStatus_one(failed) == 1

\* mutant: the error is reported, the process exits with status 0
exitStatus_zero(failed) == 0

\* process.exit(1) in the catch block of run, 0 when run returns
exitStatus(failed) == IF failed THEN 1 ELSE 0

\* loadConfig returns the validated configuration
LoadConfig ==
    /\ pc = "load"
    /\ \E loaded \in {loadConfig(disk, customPath, rawConfig)} :
          /\ loaded.error = ""
          /\ validated' = loaded.config
          /\ config' = generatorConfig(loaded.config[1])
          /\ subfolders' = IF loaded.config[1].subfolders = UNDEFINED THEN <<>>
                           ELSE loaded.config[1].subfolders[1]
    /\ pc' = "scan"
    /\ resolveUnchanged
    /\ UNCHANGED callVars
    /\ UNCHANGED <<files, grouped, ungrouped, disk, unreadable, dryRun, llmService,
                   next, docs, estimates, pending, llmCalls, written, total>>
    /\ UNCHANGED <<customPath, rawConfig, env, errors, exitCode>>

\* loadConfig throws: run catches, reports the message and exits
LoadConfigFails ==
    /\ pc = "load"
    /\ \E loaded \in {loadConfig(disk, customPath, rawConfig)} :
          /\ loaded.error # ""
          /\ errors' = Append(errors, loaded.error)
    /\ exitCode' = Some(exitStatus(TRUE))
    /\ pc' = "exited"
    /\ resolveUnchanged
    /\ UNCHANGED callVars
    /\ UNCHANGED <<scanVars, disk, generateVars>>
    /\ UNCHANGED <<customPath, rawConfig, env, validated>>

\* scanProject, called by run
RunScanProject ==
    /\ pc = "scan"
    /\ \E scanned \in {scanFiles(fileSystem, config.include, config.exclude)} :
       \E r \in {groupFilesBySubfolder(scanned, subfolders)} :
          /\ files' = scanned
          /\ grouped' = r.grouped
          /\ ungrouped' = r.ungrouped
    /\ pc' = "scanned"
    /\ resolveUnchanged
    /\ UNCHANGED callVars
    /\ UNCHANGED runVars
    /\ UNCHANGED <<subfolders, disk, generateVars>>

\* no file was found: run warns and returns
NoFiles ==
    /\ pc = "scanned"
    /\ Len(files) = 0
    /\ exitCode' = Some(exitStatus(FALSE))
    /\ pc' = "exited"
    /\ resolveUnchanged
    /\ UNCHANGED callVars
    /\ UNCHANGED <<scanVars, disk, generateVars>>
    /\ UNCHANGED <<customPath, rawConfig, env, validated, errors>>

\* dry run: the LLM service stays null
SkipLLM ==
    /\ pc = "scanned"
    /\ Len(files) # 0
    /\ dryRun
    /\ pc' = "generate"
    /\ resolveUnchanged
    /\ UNCHANGED callVars
    /\ UNCHANGED runVars
    /\ UNCHANGED <<scanVars, disk, generateVars>>

\* createLLMService returns the service
InitLLM ==
    /\ pc = "scanned"
    /\ Len(files) # 0
    /\ ~dryRun
    /\ createLLMService(validated[1].llm[1], env) = ""
    /\ llmService' = TRUE
    /\ pc' = "generate"
    /\ resolveUnchanged
    /\ UNCHANGED callVars
    /\ UNCHANGED runVars
    /\ UNCHANGED <<scanVars, disk, unreadable, config, dryRun, next, docs, estimates,
                   pending, llmCalls, written, total>>

\* createLLMService throws: run catches, reports the message and exits
InitLLMFails ==
    /\ pc = "scanned"
    /\ Len(files) # 0
    /\ ~dryRun
    /\ createLLMService(validated[1].llm[1], env) # ""
    /\ errors' = Append(errors, createLLMService(validated[1].llm[1], env))
    /\ exitCode' = Some(exitStatus(TRUE))
    /\ pc' = "exited"
    /\ resolveUnchanged
    /\ UNCHANGED callVars
    /\ UNCHANGED <<scanVars, disk, generateVars>>
    /\ UNCHANGED <<customPath, rawConfig, env, validated>>

\* generate() returned the docs: run logs the summary and returns
RunSummary ==
    /\ pc = "done"
    /\ exitCode' = Some(exitStatus(FALSE))
    /\ pc' = "exited"
    /\ resolveUnchanged
    /\ UNCHANGED callVars
    /\ UNCHANGED <<scanVars, disk, generateVars>>
    /\ UNCHANGED <<customPath, rawConfig, env, validated, errors>>

\* generate() rejected: run catches, reports the message and exits
RunCatch ==
    /\ pc = "failed"
    /\ errors' = Append(errors, "LLM generation failed")
    /\ exitCode' = Some(exitStatus(TRUE))
    /\ pc' = "exited"
    /\ resolveUnchanged
    /\ UNCHANGED callVars
    /\ UNCHANGED <<scanVars, disk, generateVars>>
    /\ UNCHANGED <<customPath, rawConfig, env, validated>>

\* generate() cannot be reached without a service outside dry-run mode, so
\* GenerateWithoutService is no step of run
NextRun ==
    \/ LoadConfig
    \/ LoadConfigFails
    \/ RunScanProject
    \/ NoFiles
    \/ SkipLLM
    \/ InitLLM
    \/ InitLLMFails
    \/ GenerateBegin
    \/ SubfolderSkip
    \/ SubfolderDryRun
    \/ SubfolderInvoke
    \/ SubfolderReturn
    \/ UngroupedSkip
    \/ UngroupedDryRun
    \/ UngroupedInvoke
    \/ UngroupedReturn
    \/ ReadmeDryRun
    \/ ReadmeInvoke
    \/ ReadmeReturn
    \/ GenerationFails
    \/ RunSummary
    \/ RunCatch

SpecRun == InitRun /\ [][NextRun]_vars

(***************************************************************************)
(* Specification of the token estimator: getTokenEstimate is called on     *)
(* texts of the lengths below, aggregateEstimates on the estimates got.    *)
(***************************************************************************)
MaxEstimates == 2

GEMINI_FLASH_X == <<"G", "e", "m", "i", "n", "i", "-", "1", ".", "5", "-", "F", "l", "a", "s", "h", "-", "X">>
GPT_FAMILY == <<"g", "p", "t">>
MY_MODEL == <<"m", "y", "-", "m", "o", "d", "e", "l">>

GPT_4O_MINI_DATED == <<"g", "p", "t", "-", "4", "o", "-", "m", "i", "n", "i", "-", "2", "0", "2", "4", "-", "0", "7", "-", "1", "8">>

tokenInput(length, model, isCode) == [length |-> length, model |-> model, isCode |-> isCode]

\* the lengths reach 80.0, 80.1, 95.0, 95.2 and more than 100 percent of the
\* context window of gpt-4o-mini
TokenInputs ==
    {tokenInput(length, GPT, TRUE) :
        length \in {0, 1, 3, 292571, 293000, 347428, 348000, 400000}}
    \cup {tokenInput(length, model, TRUE) :
             length \in {1, 293000, 348000}, model \in {GEMINI_FLASH_X, MY_MODEL}}
    \cup {tokenInput(3, GPT_FAMILY, TRUE), tokenInput(3, GPT_4O_MINI_DATED, TRUE),
          tokenInput(7, <<>>, TRUE)}
    \cup {tokenInput(length, MY_MODEL, FALSE) : length \in {0, 1, 3, 5}}

InitTokens ==
    /\ pc = "estimate"
    /\ files = <<>>
    /\ subfolders = <<>>
    /\ grouped = <<>>
    /\ ungrouped = <<>>
    /\ NoResolve
    /\ NoGenerate
    /\ NoRun

\* getTokenEstimate(content, model, isCode)
GetTokenEstimate ==
    /\ pc = "estimate"
    /\ Len(estimates) < MaxEstimates
    /\ \E input \in TokenInputs :
          /\ args' = Append(args, input)
          /\ estimates' = Append(estimates,
                                 getTokenEstimate(input.length, input.model, input.isCode))
    /\ UNCHANGED <<pc, scanVars, resolveVars, runVars, outcome>>
    /\ UNCHANGED <<unreadable, config, dryRun, llmService, next, docs, pending,
                   llmCalls, written, total>>

\* aggregateEstimates(estimates)
AggregateEstimates ==
    /\ pc = "estimate"
    /\ total' = Some(aggregateEstimates(estimates))
    /\ pc' = "aggregated"
    /\ UNCHANGED <<scanVars, resolveVars, runVars, callVars>>
    /\ UNCHANGED <<unreadable, config, dryRun, llmService, next, docs, estimates,
                   pending, llmCalls, written>>

NextTokens ==
    \/ GetTokenEstimate
    \/ AggregateEstimates

SpecTokens == InitTokens /\ [][NextTokens]_vars

(***************************************************************************)
(* Specification of normalizePath: it is called on a path, then on its own *)
(* result.                                                                 *)
(***************************************************************************)
MaxPathLen == 4

PathCharacters == {"a", DOT, SLASH, BACKSLASH}

InitNormalize ==
    /\ pc = "path"
    /\ files = <<>>
    /\ subfolders = <<>>
    /\ grouped = <<>>
    /\ ungrouped = <<>>
    /\ NoResolve
    /\ NoGenerate
    /\ customPath = <<>>
    /\ rawConfig = <<>>
    /\ env = <<>>
    /\ validated = <<>>
    /\ errors = <<>>
    /\ exitCode = <<>>
    /\ args \in SeqsUpTo(PathCharacters, MaxPathLen)
    /\ outcome = UNDEFINED

\* normalizePath(filePath)
NormalizePath ==
    /\ pc = "path"
    /\ outcome' = <<normalizePath(args)>>
    /\ pc' = "normalized"
    /\ UNCHANGED <<scanVars, resolveVars, generateVars, runVars, args>>

\* normalizePath called on the path it returned
NormalizeAgain ==
    /\ pc = "normalized"
    /\ outcome' = Append(outcome, normalizePath(outcome[1]))
    /\ pc' = "again"
    /\ UNCHANGED <<scanVars, resolveVars, generateVars, runVars, args>>

NextNormalize ==
    \/ NormalizePath
    \/ NormalizeAgain

SpecNormalize == InitNormalize /\ [][NextNormalize]_vars

(***************************************************************************)
(* Specification of resolveImportPath: it is called on an import literal   *)
(* of the file m.ts of rootDir, on a disk that holds some of the files a   *)
(* literal naming x can resolve to.                                        *)
(***************************************************************************)
X_STEM == <<"x">>
M_TS == <<"m">> \o EXT_TS

\* x.ts, x.tsx, x.js, x.jsx
directCandidates == [i \in 1..4 |-> X_STEM \o extensions[i]]

\* x/index.ts, x/index.tsx, x/index.js, x/index.jsx
indexCandidates == [i \in 1..Len(indexFiles) |-> X_STEM \o <<SLASH>> \o indexFiles[i]]

\* the disks: m.ts and any files among the candidates and the file x, which
\* cannot be on a disk where x is a directory
ImportDisks ==
    {[p \in {absPath(q) : q \in chosen \cup {M_TS}} |-> <<>>] :
        chosen \in {c \in SUBSET (Range(directCandidates) \cup Range(indexCandidates)
                                    \cup {X_STEM}) :
                       X_STEM \in c => c \cap Range(indexCandidates) = {}}}

ImportLiterals ==
    {<<DOT, SLASH>> \o X_STEM,
     <<DOT, SLASH>> \o X_STEM \o EXT_JS,
     <<DOT, SLASH, "y">>,
     absPath(X_STEM),
     X_STEM,
     X_STEM \o <<SLASH>> \o indexFiles[1]}

InitImport ==
    /\ pc = "import"
    /\ files = <<>>
    /\ subfolders = <<>>
    /\ grouped = <<>>
    /\ ungrouped = <<>>
    /\ disk \in ImportDisks
    /\ seedFiles = <<>>
    /\ importDepth = 0
    /\ callFiles = <<>>
    /\ callAllFiles = <<>>
    /\ callDepth = 0
    /\ imported = <<>>
    /\ levels = 0
    /\ NoGenerate
    /\ customPath = <<>>
    /\ rawConfig = <<>>
    /\ env = <<>>
    /\ validated = <<>>
    /\ errors = <<>>
    /\ exitCode = <<>>
    /\ args \in {[importPath |-> literal, fromFile |-> M_TS] : literal \in ImportLiterals}
    /\ outcome = <<>>

\* resolveImportPath(importPath, fromFile, rootDir)
ResolveImportPath ==
    /\ pc = "import"
    /\ outcome' = <<resolveImportPath(disk, args.importPath, args.fromFile)>>
    /\ pc' = "resolved"
    /\ UNCHANGED <<scanVars, resolveVars, generateVars, runVars, args>>

NextImport == ResolveImportPath

SpecImport == InitImport /\ [][NextImport]_vars

(***************************************************************************)
(* Properties of groupFilesBySubfolder                                     *)
(***************************************************************************)
\* the number of places (bucket positions and ungrouped positions) holding f
placesOf(f) ==
    Cardinality({<<k, i>> \in (1..Len(grouped)) \X (1..Len(files)) :
                    i <= Len(grouped[k]) /\ grouped[k][i] = f})
    + Cardinality({i \in 1..Len(ungrouped) : ungrouped[i] = f})

matchingSubfolders(f) ==
    {k \in 1..Len(subfolders) : belongsToSubfolder(f.path, subfolders[k].path)}

\* C1: after grouping, every input file (paths distinct) is held in exactly
\* one place among the buckets and the ungrouped list, and the buckets and
\* the ungrouped list hold input files only.
C1_Partition ==
    pc = "grouped" =>
        /\ \A f \in Range(files) : placesOf(f) = 1
        /\ \A k \in 1..Len(grouped) : Range(grouped[k]) \subseteq Range(files)
        /\ Range(ungrouped) \subseteq Range(files)
        /\ Len(grouped) = Len(subfolders)

\* a file under two configured subfolders was grouped next to a file under none
C1_Witness ==
    /\ pc = "grouped"
    /\ \E f \in Range(files) : Cardinality(matchingSubfolders(f)) >= 2
    /\ ungrouped # <<>>
    /\ Len(files) >= 3

\* C2: a file lying under several configured subfolders is in the bucket of a
\* matching subfolder of greatest path length and in no other bucket; no
\* matching subfolder is more specific (longer once normalized and stripped of
\* its trailing slash) than the one it is assigned to.
C2_MostSpecific ==
    pc = "grouped" =>
        \A f \in Range(files) :
            matchingSubfolders(f) # {} =>
                \E k \in matchingSubfolders(f) :
                    /\ f \in Range(grouped[k])
                    /\ \A j \in 1..Len(grouped) : j # k => f \notin Range(grouped[j])
                    /\ f \notin Range(ungrouped)
                    /\ \A j \in matchingSubfolders(f) :
                        /\ Len(subfolders[j].path) <= Len(subfolders[k].path)
                        /\ Len(stripTrailingSlash(normalizePath(subfolders[j].path)))
                             <= Len(stripTrailingSlash(normalizePath(subfolders[k].path)))

\* the shorter subfolder, with a trailing slash, is configured before the
\* nested one and a file under both was grouped
C2_Witness ==
    /\ pc = "grouped"
    /\ Len(subfolders) = 2
    /\ subfolders[1].path = D_s_sl
    /\ subfolders[2].path = D_s_p
    /\ \E i \in 1..Len(files) : files[i].path = P_s_p_b
    /\ \E i \in 1..Len(grouped[2]) : grouped[2][i].path = P_s_p_b

(***************************************************************************)
(* Properties of resolveImportsForFiles                                    *)
(***************************************************************************)
pathsOf(fs) == {normalizePath(fs[i].path) : i \in 1..Len(fs)}

seedPaths == pathsOf(seedFiles)
knownPaths == pathsOf(files)

\* the paths the imports of a file resolve to
importsOf(f) ==
    LET imps == extractImports(f.content)
        res == {resolveImportPath(disk, imps[i], f.path) : i \in 1..Len(imps)}
    IN  {normalizePath(r) : r \in res \ {NULL, <<>>}}

\* the files whose content the call holds: the seed files and the known files
heldFiles == Range(seedFiles) \cup Range(files)

\* the paths one resolved import away from a file of the given paths
oneHop(ps) == UNION {importsOf(f) : f \in {g \in heldFiles : normalizePath(g.path) \in ps}}

\* the paths reached from a seed file by a chain of 1..n resolved imports
RECURSIVE withinHops(_)
withinHops(n) ==
    IF n <= 0 THEN {}
    ELSE IF n = 1 THEN oneHop(seedPaths)
    ELSE LET nearer == withinHops(n - 1) IN nearer \cup oneHop(nearer)

\* C3: a returned call holds no file whose path is the path of a seed file.
C3_NoSeedReturned ==
    pc = "returned" => pathsOf(imported) \cap seedPaths = {}

\* C4: a returned call holds no path twice.
C4_NoPathTwice ==
    pc = "returned" =>
        \A i, j \in 1..Len(imported) :
            i # j => normalizePath(imported[i].path) # normalizePath(imported[j].path)

\* C5: a call with depth 0 returns the empty list, and so does the function
\* computed as one recursive evaluation.
C5_DepthZeroEmpty ==
    (pc = "returned" /\ importDepth = 0) =>
        /\ imported = <<>>
        /\ resolveImportsForFiles(disk, seedFiles, files, 0) = <<>>

\* a call with depth 0 returned, its seed file importing a known file
C5_Witness ==
    /\ pc = "returned"
    /\ importDepth = 0
    /\ oneHop(seedPaths) \cap (knownPaths \ seedPaths) # {}

C7_ReadsFromDisk ==
    (pc = "returned" /\ importDepth = 1) =>
        \A p \in oneHop(seedPaths) \ seedPaths :
            isFile(disk, pathResolve(rootDir, p)) =>
                Cardinality({i \in 1..Len(imported) : imported[i].path = p}) = 1

\* C8: a call terminates.  Every step of a call either returns or makes the
\* recursive call with a smaller depth that is still at least 1, at most
\* depth calls go past the depth guard, and a call that discovers no file
\* returns without a further call.
C8_Terminates ==
    /\ [](levels <= importDepth)
    /\ [][pc = "call" =>
            \/ pc' = "returned"
            \/ (callDepth' < callDepth /\ callDepth' >= 1 /\ levels' = levels + 1)]_vars
    /\ [][(pc = "call" /\ ~depthExhausted(callDepth)
            /\ importedFilesOf(disk, callFiles, callAllFiles) = <<>>)
          => pc' = "returned"]_vars

\* a call with depth 3 returned after three levels on a graph with a cycle
\* among files that are no seed files
C8_Witness ==
    /\ pc = "returned"
    /\ importDepth = 3
    /\ levels = 3
    /\ \E p \in knownPaths \ seedPaths :
          \E q \in knownPaths \ (seedPaths \cup {p}) :
              /\ q \in oneHop({p})
              /\ p \in oneHop({q})

(***************************************************************************)
(* Properties of DocumentationGenerator.generate                           *)
(***************************************************************************)
\* the paths of a list of files, in order
pathListOf(fs) == [i \in 1..Len(fs) |-> fs[i].path]

RECURSIVE textLengthOf(_)
textLengthOf(fs) ==
    IF fs = <<>> THEN 0 ELSE textLength(Head(fs).content) + textLengthOf(Tail(fs))

RECURSIVE withFilesFrom(_)
withFilesFrom(k) ==
    IF k > Len(subfolders) THEN <<>>
    ELSE (IF Len(grouped[k]) > 0 THEN <<k>> ELSE <<>>) \o withFilesFrom(k + 1)

\* the subfolders that have files, in the order of the configuration
subfoldersWithFiles == withFilesFrom(1)

\* the output path of the doc of subfolder k
outputPathOfSubfolder(k) ==
    IF subfolders[k].outputPath # UNDEFINED THEN subfolders[k].outputPath[1]
    ELSE subfolders[k].path \o <<SLASH>> \o README_MD

\* the context files of subfolder k: the imports that are not main files,
\* then the additional files
contextOfSubfolder(k) ==
    LET imports == IF subfolders[k].includeImports = Some(FALSE) THEN <<>>
                   ELSE SelectSeq(
                            resolveImportsForFiles(disk, grouped[k], files,
                                IF subfolders[k].importDepth = UNDEFINED THEN 2
                                ELSE subfolders[k].importDepth[1]),
                            LAMBDA f : \A i \in 1..Len(grouped[k]) :
                                           grouped[k][i].path # f.path)
        additional == IF subfolders[k].additionalFiles \in {UNDEFINED, <<<<>>>>} THEN <<>>
                      ELSE loadAdditionalFiles(fileSystem, subfolders[k].additionalFiles[1],
                               config.exclude,
                               Range(pathListOf(grouped[k])) \cup Range(pathListOf(imports)))
    IN  imports \o additional

\* the targets that are not skipped, in the order of generate(): the output
\* path and the source files of each
targets ==
    [i \in 1..Len(subfoldersWithFiles) |->
        [outputPath |-> outputPathOfSubfolder(subfoldersWithFiles[i]),
         mainFiles |-> grouped[subfoldersWithFiles[i]],
         sourceFiles |-> pathListOf(grouped[subfoldersWithFiles[i]])
                         \o pathListOf(contextOfSubfolder(subfoldersWithFiles[i]))]]
    \o (IF Len(ungrouped) > 0
        THEN <<[outputPath |-> config.outputDir \o <<SLASH>> \o API_REFERENCE_MD,
                mainFiles |-> ungrouped,
                sourceFiles |-> pathListOf(ungrouped)]>>
        ELSE <<>>)
    \o <<[outputPath |-> README_MD, mainFiles |-> files,
          sourceFiles |-> pathListOf(files)]>>

\* the estimate counts more characters than the contents of the main files
\* and 0.35 token per character, rounded up
isComputedEstimate(e, mainFiles) ==
    /\ e.characters > textLengthOf(mainFiles)
    /\ e.tokens * 100 >= e.characters * TOKENS_PER_CHAR_code
    /\ (e.tokens - 1) * 100 < e.characters * TOKENS_PER_CHAR_code

\* C9: in dry-run mode generate() makes no generation call and writes no
\* file (the disk never changes); when it has returned, there is exactly one
\* doc per target that is not skipped (each subfolder with files, the
\* ungrouped files when there are any, the README), with the placeholder
\* content, the paths of its main files followed by those of its context
\* files as sourceFiles, and an estimate computed from the input.
C9_DryRun ==
    /\ [](dryRun => llmCalls = <<>> /\ written = <<>> /\ pending = UNDEFINED)
    /\ [][dryRun => disk' = disk]_vars
    /\ [](dryRun /\ pc = "done" =>
             /\ Len(docs) = Len(targets)
             /\ Len(estimates) = Len(targets)
             /\ \A i \in 1..Len(targets) :
                   /\ docs[i].outputPath = targets[i].outputPath
                   /\ docs[i].content = DRY_RUN_CONTENT
                   /\ docs[i].sourceFiles = targets[i].sourceFiles
                   /\ isComputedEstimate(estimates[i], targets[i].mainFiles))

\* a dry run has returned the docs of a subfolder with context files, of the
\* ungrouped files and of the README
C9_Witness ==
    /\ dryRun /\ pc = "done"
    /\ Len(docs) = 3
    /\ Len(ungrouped) > 0
    /\ Len(docs[1].sourceFiles) > Len(grouped[subfoldersWithFiles[1]])
    /\ llmCalls = <<>> /\ written = <<>>

\* the output paths of the docs produced so far
outputsOf(ds) == [i \in 1..Len(ds) |-> ds[i].outputPath]

\* the output paths of the targets that are not skipped, in the order of
\* generate()
targetPaths ==
    [i \in 1..Len(subfoldersWithFiles) |-> outputPathOfSubfolder(subfoldersWithFiles[i])]
    \o (IF Len(ungrouped) > 0 THEN <<config.outputDir \o <<SLASH>> \o API_REFERENCE_MD>>
        ELSE <<>>)
    \o <<README_MD>>

isPrefix(s, t) == Len(s) <= Len(t) /\ SubSeq(t, 1, Len(s)) = s

\* C10: generate() produces its docs in the order of the targets: the
\* subfolders in configuration order, then the ungrouped files, then the
\* README; when it has returned, every target that is not skipped has its
\* doc, the README doc is the last one and its sourceFiles are the paths of
\* all scanned files; outside dry-run mode the docs were generated and
\* written in that order.
C10_OrderAndReadme ==
    /\ [](pc # "scan" => isPrefix(outputsOf(docs), targetPaths))
    /\ [](pc # "scan" /\ ~dryRun =>
             /\ isPrefix(outputsOf(llmCalls), targetPaths)
             /\ outputsOf(written) = outputsOf(docs)
             /\ Len(docs) <= Len(llmCalls) /\ Len(llmCalls) <= Len(docs) + 1)
    /\ [](pc = "done" =>
             /\ outputsOf(docs) = targetPaths
             /\ docs[Len(docs)].outputPath = README_MD
             /\ docs[Len(docs)].sourceFiles = pathListOf(files)
             /\ (~dryRun => llmCalls[Len(llmCalls)].method = "generateReadme"))

\* a run outside dry-run mode has returned: the docs of a subfolder with
\* context files, of the ungrouped files and of the README were generated
\* and written, in this order
C10_Witness ==
    /\ ~dryRun /\ pc = "done"
    /\ Len(docs) = 3
    /\ Len(ungrouped) > 0
    /\ outputsOf(written) = <<outputPathOfSubfolder(subfoldersWithFiles[1]),
                              config.outputDir \o <<SLASH>> \o API_REFERENCE_MD,
                              README_MD>>
    /\ Len(docs[1].sourceFiles) > Len(grouped[subfoldersWithFiles[1]])
    /\ Len(docs[3].sourceFiles) > Len(ungrouped)

\* the content last written to the output path of the i-th write
lastWritten(i) ==
    written[CHOOSE j \in i..Len(written) :
                /\ written[j].outputPath = written[i].outputPath
                /\ \A k \in (j + 1)..Len(written) :
                       written[k].outputPath # written[i].outputPath].content

\* C11: outside dry-run mode, once a generation call has thrown or returned
\* an unparseable shape, generate() has failed: the step that fails writes
\* nothing and makes no call, nothing happens after it (no later call, no
\* later write, no second call for the failed target), the calls made are
\* those of the targets up to the failed one, each once and in order, and the
\* files written for the earlier targets are on disk with their content.
C11_GenerationFailureAborts ==
    /\ [][pc' = "failed" => UNCHANGED <<llmCalls, written, disk, docs>>]_vars
    /\ [][pc = "failed" => pc' = "failed" /\ UNCHANGED <<llmCalls, written, disk, docs>>]_vars
    /\ [](~dryRun /\ pc # "scan" =>
             /\ isPrefix(outputsOf(llmCalls), targetPaths)
             /\ isPrefix(outputsOf(written), outputsOf(llmCalls)))
    /\ [](pc = "failed" /\ llmService =>
             /\ Len(llmCalls) = Len(written) + 1
             /\ \A i \in 1..Len(written) :
                   LET fullPath == pathResolve(rootDir, written[i].outputPath)
                   IN  isFile(disk, fullPath) /\ disk[fullPath] = lastWritten(i))

\* the second generation call of a run failed: the first target is written
\* and on disk, and a later target was never called
C11_Witness ==
    /\ pc = "failed" /\ ~dryRun /\ llmService
    /\ Len(written) = 1
    /\ Len(llmCalls) = 2
    /\ Len(targetPaths) = 3
    /\ disk[pathResolve(rootDir, written[1].outputPath)] = written[1].content

(***************************************************************************)
(* Properties of run(options)                                              *)
(***************************************************************************)
\* loading or validating the configuration fails
configFails == loadConfig(disk, customPath, rawConfig).error # ""

\* the scan found files, the run is no dry run and creating the service fails
llmInitFails ==
    /\ validated # UNDEFINED
    /\ ~dryRun
    /\ Len(files) # 0
    /\ createLLMService(validated[1].llm[1], env) # ""

\* C12: when loading or validating the configuration fails, or when in a
\* non-dry run the initialisation of the LLM service fails, the run makes no
\* generation call, writes no documentation file and produces no document,
\* leaves the disk as it is, never enters generate(), and ends by reporting
\* exactly one error message and exiting with a non-zero status.
C12_FatalConfiguration ==
    /\ [](configFails \/ llmInitFails =>
             /\ llmCalls = <<>> /\ written = <<>> /\ docs = <<>>
             /\ pc \in {"load", "scan", "scanned", "exited"}
             /\ Len(errors) <= 1)
    /\ [](pc = "exited" /\ (configFails \/ llmInitFails) =>
             /\ Len(errors) = 1
             /\ exitCode # UNDEFINED /\ exitCode[1] # 0)
    /\ [][configFails \/ llmInitFails => disk' = disk]_vars
    /\ [][(pc = "load" /\ configFails) \/ (pc = "scanned" /\ llmInitFails) =>
             pc' = "exited"]_vars

C12_Witness ==
    /\ pc = "exited"
    /\ llmInitFails
    /\ Len(files) = 4
    /\ errors = <<"No API key provided">>
    /\ exitCode = Some(1)
    /\ llmCalls = <<>> /\ written = <<>>

(***************************************************************************)
(* Subfolders without files                                                *)
(***************************************************************************)
\* the configured subfolders no scanned file belongs to
unmatchedSubfolders ==
    {k \in 1..Len(subfolders) :
        \A i \in 1..Len(files) : ~belongsToSubfolder(files[i].path, subfolders[k].path)}

\* the configured subfolders whose list is empty
emptySubfolders == {k \in 1..Len(grouped) : grouped[k] = <<>>}

\* C13: after the scan every configured subfolder has its list, empty when no
\* scanned file belongs to it; the generation step of a subfolder whose list
\* is empty produces no doc, no estimate, no generation call and no write and
\* moves on to the next target; when generate() has returned, each subfolder
\* with files, the ungrouped files if any and the README have their doc.
C13_EmptySubfolderSkipped ==
    /\ [](pc # "scan" =>
             /\ Len(grouped) = Len(subfolders)
             /\ \A k \in unmatchedSubfolders : grouped[k] = <<>>)
    /\ [][pc = "subfolder" /\ grouped[next] = <<>> =>
             /\ UNCHANGED <<docs, estimates, llmCalls, written, disk, pending>>
             /\ next' = next + 1
             /\ pc' = IF next < Len(subfolders) THEN "subfolder" ELSE "ungrouped"]_vars
    /\ [](pc = "done" =>
             /\ Len(docs) = Len(subfolders) - Cardinality(emptySubfolders)
                               + (IF Len(ungrouped) > 0 THEN 2 ELSE 1)
             /\ outputsOf(docs) = targetPaths
             /\ ~dryRun => Len(llmCalls) = Len(docs) /\ Len(written) = Len(docs))

C13_Witness ==
    /\ pc = "done" /\ ~dryRun
    /\ Len(subfolders) = 2
    /\ subfolders[1].path = D_u /\ unmatchedSubfolders = {1}
    /\ grouped[1] = <<>> /\ Len(grouped[2]) = 2
    /\ Len(ungrouped) = 2
    /\ Len(docs) = 3 /\ Len(llmCalls) = 3 /\ Len(written) = 3

(***************************************************************************)
(* Properties of the token estimator                                       *)
(***************************************************************************)
\* the model of call i has an entry in the pricing table
hasPricing(i) ==
    \E k \in 1..Len(MODEL_PRICING) :
        \/ MODEL_PRICING[k].key = args[i].model
        \/ /\ args[i].model # <<>>
           /\ \/ includes(toLowerCase(args[i].model), toLowerCase(MODEL_PRICING[k].key))
              \/ includes(toLowerCase(MODEL_PRICING[k].key), toLowerCase(args[i].model))

\* C14: an estimate for a model with known pricing carries the critical
\* warning when its context usage exceeds 95 percent, the high-usage warning
\* when it exceeds 80 but not 95 percent, and no warning at 80 percent or
\* below.
C14_WarningThresholds ==
    \A i \in 1..Len(estimates) :
        hasPricing(i) =>
            LET percent == estimates[i].contextUsagePercent[1]
            IN  /\ percent > 950 => estimates[i].warning = Some("Critical")
                /\ percent > 800 /\ percent <= 950 =>
                       estimates[i].warning = Some("High context usage")
                /\ percent <= 800 => estimates[i].warning = UNDEFINED

\* t = ceil(length * percentRatio / 100)
isCeilOf(t, length, percentRatio) ==
    /\ t * 100 >= length * percentRatio
    /\ (t - 1) * 100 < length * percentRatio

\* C15: for a model that matches no key of the pricing table, neither
\* exactly nor by case-insensitive inclusion in either direction, the
\* estimate has the characters and the tokens of the text and no
\* estimatedCost, contextWindow, contextUsagePercent or warning.
C15_UnknownModel ==
    \A i \in 1..Len(estimates) :
        ~hasPricing(i) =>
            /\ estimates[i].characters = args[i].length
            /\ isCeilOf(estimates[i].tokens, args[i].length,
                        IF args[i].isCode THEN 35 ELSE 25)
            /\ estimates[i].estimatedCost = UNDEFINED
            /\ estimates[i].contextWindow = UNDEFINED
            /\ estimates[i].contextUsagePercent = UNDEFINED
            /\ estimates[i].warning = UNDEFINED

C15_Witness ==
    /\ Len(estimates) = 2
    /\ args[1] = tokenInput(348000, MY_MODEL, TRUE)
    /\ ~hasPricing(1)
    /\ estimates[1].characters = 348000 /\ estimates[1].tokens = 121800
    /\ estimates[1].estimatedCost = UNDEFINED /\ estimates[1].warning = UNDEFINED
    /\ hasPricing(2) /\ estimates[2].estimatedCost # UNDEFINED

\* the sum of field over the first n estimates
RECURSIVE totalOf(_, _)
totalOf(field, n) ==
    IF n = 0 THEN 0 ELSE totalOf(field, n - 1) + estimates[n][field]

\* the sum of the costs that are defined among the first n estimates
RECURSIVE totalCost(_)
totalCost(n) ==
    IF n = 0 THEN 0
    ELSE totalCost(n - 1)
         + (IF estimates[n].estimatedCost = UNDEFINED THEN 0
            ELSE estimates[n].estimatedCost[1])

\* the estimates that have a context window
withContextWindow == {i \in 1..Len(estimates) : estimates[i].contextWindow # UNDEFINED}

\* p is tokens / window in tenths of a percent, rounded to the nearest
isPercentOf(p, tokens, window) ==
    /\ 2 * p * window <= 2 * tokens * 1000 + window
    /\ 2 * tokens * 1000 + window < 2 * (p + 1) * window

\* C16: the aggregate of a list of estimates has the sums of their characters
\* and tokens, the sum of their defined costs as a defined cost (0 when none
\* is defined or the list is empty), the context window of the first
\* estimate that has one (none when no estimate has one), and a usage percent
\* computed from the total tokens against that window.
C16_Aggregate ==
    pc = "aggregated" =>
        LET n == Len(estimates) IN
        /\ total[1].characters = totalOf("characters", n)
        /\ total[1].tokens = totalOf("tokens", n)
        /\ total[1].estimatedCost = Some(totalCost(n))
        /\ (\A i \in 1..n : estimates[i].estimatedCost = UNDEFINED) =>
               total[1].estimatedCost = Some(0)
        /\ withContextWindow = {} =>
               /\ total[1].contextWindow = UNDEFINED
               /\ total[1].contextUsagePercent = UNDEFINED
        /\ \A i \in withContextWindow :
               (\A j \in withContextWindow : i <= j) =>
                   /\ total[1].contextWindow = estimates[i].contextWindow
                   /\ total[1].contextUsagePercent # UNDEFINED
                   /\ isPercentOf(total[1].contextUsagePercent[1], total[1].tokens,
                                  estimates[i].contextWindow[1])

C16_Witness ==
    /\ pc = "aggregated"
    /\ args = <<tokenInput(293000, MY_MODEL, TRUE), tokenInput(293000, GPT, TRUE)>>
    /\ estimates[1].contextWindow = UNDEFINED
    /\ estimates[2].contextUsagePercent = Some(801)
    /\ total[1].tokens = 205100
    /\ total[1].contextWindow = Some(128000)
    /\ total[1].contextUsagePercent = Some(1602)
    /\ total[1].estimatedCost = estimates[2].estimatedCost

\* C17: the token estimate of a text is 0 for the empty text and the ceiling
\* of its length times 0.35 for code, times 0.25 for prose; two texts of the
\* same length and flag get the same estimate whatever the model, and of two
\* texts with the same flag the longer never gets the smaller estimate.
C17_EstimateTokens ==
    /\ \A i \in 1..Len(estimates) :
           /\ args[i].length = 0 => estimates[i].tokens = 0
           /\ args[i].isCode => isCeilOf(estimates[i].tokens, args[i].length, 35)
           /\ ~args[i].isCode => isCeilOf(estimates[i].tokens, args[i].length, 25)
    /\ \A i, j \in 1..Len(estimates) :
           args[i].isCode = args[j].isCode /\ args[i].length <= args[j].length =>
               estimates[i].tokens <= estimates[j].tokens

C17_Witness ==
    /\ args = <<tokenInput(3, GPT, TRUE), tokenInput(1, MY_MODEL, TRUE)>>
    /\ estimates[1].tokens = 2
    /\ estimates[2].tokens = 1

(***************************************************************************)
(* Properties of normalizePath                                             *)
(***************************************************************************)
\* C18: the path normalizePath returns contains no backslash, and calling
\* normalizePath on it returns it unchanged.
C18_NormalizeIdempotent ==
    /\ \A k \in 1..Len(outcome) : \A i \in 1..Len(outcome[k]) : outcome[k][i] # "\\"
    /\ pc = "again" => outcome[2] = outcome[1]

C18_Witness ==
    /\ pc = "again"
    /\ args = <<"a", "\\", "\\", "a">>
    /\ outcome = <<(<<"a", "/", "/", "a">>), (<<"a", "/", "/", "a">>)>>

(***************************************************************************)
(* Properties of validateConfig                                            *)
(***************************************************************************)
\* the value of an optional field of the validated configuration: the value
\* supplied, the default when none was supplied
keptOrFilled(field, default) ==
    IF rawConfig[1][field] # UNDEFINED
    THEN validated[1][field] = rawConfig[1][field]
    ELSE validated[1][field] = Some(default)

\* the provider of the configuration loaded is none of the three of the enum
providerOutsideEnum ==
    /\ rawConfig # UNDEFINED
    /\ rawConfig[1].llm # UNDEFINED
    /\ rawConfig[1].llm[1].provider \notin {"openai", "anthropic", "google-genai"}

readablePaths ==
    {SubSeq(f, Len(rootDir) + 2, Len(f)) : f \in DOMAIN disk \ unreadable}

\* the readable files one resolved import away from a file of the given paths
importedBy(ps) ==
    UNION {importsOf(indexedFile(disk, p)) : p \in ps \cap readablePaths}
        \cap readablePaths

\* the files that are no main file of subfolder k and are imported from its
\* main files within two levels
importedWithinTwoLevels(k) ==
    LET mainPaths == pathsOf(grouped[k])
        firstLevel == importedBy(mainPaths)
    IN  (firstLevel \cup importedBy(firstLevel)) \ mainPaths

\* subfolder k resolves imports to depth 2 and has no additional files
hasImportDepthTwo(k) ==
    /\ subfolders[k].includeImports # Some(FALSE)
    /\ subfolders[k].importDepth \in {UNDEFINED, Some(2)}
    /\ subfolders[k].additionalFiles = UNDEFINED

\* C20: in dry-run mode no generation call is made, and the doc of a
\* subfolder with n >= 1 main files and import depth 2 has the placeholder
\* content and n source files plus one for each distinct file that is no
\* main file and is imported from the main files within two levels.
C20_DryRunSourceFiles ==
    dryRun =>
        /\ llmCalls = <<>>
        /\ \A i \in 1..Len(docs) :
               i <= Len(subfoldersWithFiles) /\ hasImportDepthTwo(subfoldersWithFiles[i]) =>
                   /\ docs[i].content = DRY_RUN_CONTENT
                   /\ Len(docs[i].sourceFiles) =
                          Len(grouped[subfoldersWithFiles[i]])
                          + Cardinality(importedWithinTwoLevels(subfoldersWithFiles[i]))

(***************************************************************************)
(* Properties of resolveImportPath                                         *)
(***************************************************************************)
\* the first path of the list that is a file of the disk, NULL when none is
RECURSIVE firstFileOf(_)
firstFileOf(candidates) ==
    IF candidates = <<>> THEN NULL
    ELSE IF absPath(Head(candidates)) \in DOMAIN disk THEN Head(candidates)
         ELSE firstFileOf(Tail(candidates))

\* the import literal is relative and names x
namesStem == args.importPath \in {<<".", "/", "x">>, <<".", "/", "x", ".", "j", "s">>}

\* C21: a relative import of x, when none of x.ts, x.tsx, x.js, x.jsx exists
\* and x is a directory that holds an index file, resolves to the first
\* existing one of x/index.ts, x/index.tsx, x/index.js, x/index.jsx.
C21_DirectoryIndex ==
    pc = "resolved" /\ namesStem /\ firstFileOf(directCandidates) = NULL
        /\ firstFileOf(indexCandidates) # NULL =>
            outcome[1] = firstFileOf(indexCandidates)

\* the import literal starts with "." or with "/"
qualifies == args.importPath[1] \in {".", "/"}

\* C26: an import literal that starts with neither "." nor "/" resolves to
\* null; a literal naming x that starts with one of them, ".js" ending
\* included, resolves to the first existing file among x.ts, x.tsx, x.js,
\* x.jsx in this order, so to x.ts when x.ts and x.js both exist.
C26_ExtensionOrder ==
    pc = "resolved" =>
        /\ ~qualifies => outcome[1] = NULL
        /\ (namesStem \/ args.importPath = absPath(<<"x">>))
               /\ firstFileOf(directCandidates) # NULL =>
                   outcome[1] = firstFileOf(directCandidates)
        /\ namesStem /\ {absPath(<<"x", ".", "t", "s">>), absPath(<<"x", ".", "j", "s">>)}
                            \subseteq DOMAIN disk =>
               outcome[1] = <<"x", ".", "t", "s">>

C26_Witness ==
    /\ pc = "resolved"
    /\ args.importPath = <<".", "/", "x", ".", "j", "s">>
    /\ DOMAIN disk = {absPath(M_TS), absPath(<<"x", ".", "t", "s">>),
                      absPath(<<"x", ".", "j", "s">>)}
    /\ outcome = <<<<"x", ".", "t", "s">>>>

(***************************************************************************)
(* Properties of scanFiles                                                 *)
(***************************************************************************)
\* the records scanFiles pushes, pattern after pattern, before the
\* duplicates are removed
pushedFiles == scanPatterns(fileSystem, config.include, config.exclude, <<>>)

firstPush(pushed, p) ==
    CHOOSE i \in 1..Len(pushed) :
        pushed[i].path = p /\ \A j \in 1..(i - 1) : pushed[j].path # p

lastPush(pushed, p) ==
    CHOOSE i \in 1..Len(pushed) :
        pushed[i].path = p /\ \A j \in (i + 1)..Len(pushed) : pushed[j].path # p

\* C22: the files scanFiles returns have pairwise different normalized
\* paths; they are the paths pushed, each once, in the order of their first
\* push, each with the record of its last push.
C22_ScanFilesUnique ==
    pc = "scanned" =>
        LET pushed == pushedFiles
        IN  /\ \A i, j \in 1..Len(files) :
                   i # j => normalizePath(files[i].path) # normalizePath(files[j].path)
            /\ {files[i].path : i \in 1..Len(files)}
                   = {pushed[i].path : i \in 1..Len(pushed)}
            /\ \A i, j \in 1..Len(files) :
                   i < j => firstPush(pushed, files[i].path) < firstPush(pushed, files[j].path)
            /\ \A i \in 1..Len(files) : files[i] = pushed[lastPush(pushed, files[i].path)]

C22_Witness ==
    /\ pc = "scanned"
    /\ config.include = <<<<"t", "/", "*">>, STAR_STAR_TS>>
    /\ Len(pushedFiles) = 6
    /\ pathListOf(files) = <<G_tc, G_td, G_sa, G_sb>>

\* the paths the patterns match on the disk, whether readable or not
matchedBy(patterns) ==
    UNION {Range(glob(disk, GenListing, patterns[i], config.exclude)) :
               i \in 1..Len(patterns)}

readable(p) == absPath(p) \notin unreadable

\* the first doc is the doc of the first subfolder, which names additional
\* files
firstDocHasAdditionalFiles ==
    /\ Len(docs) >= 1
    /\ Len(subfolders) >= 1
    /\ Len(grouped[1]) > 0
    /\ subfolders[1].additionalFiles \notin {UNDEFINED, <<<<>>>>}

\* C23: a file that cannot be read is left out by scanFiles and by
\* loadAdditionalFiles, nothing is thrown and the readable files that match
\* are still returned; when no match is readable the list is empty.
C23_UnreadableSkipped ==
    /\ pc = "scanned" =>
           /\ errors = <<>>
           /\ exitCode = UNDEFINED
           /\ Range(pathListOf(files))
                  = {normalizePath(p) : p \in {q \in matchedBy(config.include) : readable(q)}}
           /\ (\A q \in matchedBy(config.include) : ~readable(q)) => files = <<>>
    /\ firstDocHasAdditionalFiles =>
           LET main == Range(pathListOf(grouped[1]))
               imports == Range(pathListOf(
                              resolveImportsForFiles(disk, grouped[1], files,
                                  IF subfolders[1].importDepth = UNDEFINED THEN 2
                                  ELSE subfolders[1].importDepth[1])))
               loaded == {normalizePath(p) :
                             p \in {q \in matchedBy(subfolders[1].additionalFiles[1]) :
                                        readable(q)}}
           IN  /\ Range(docs[1].sourceFiles) = main \cup imports \cup loaded
               /\ (\A q \in matchedBy(subfolders[1].additionalFiles[1]) : ~readable(q))
                      => Range(docs[1].sourceFiles) = main \cup imports

C23_Witness ==
    /\ firstDocHasAdditionalFiles
    /\ unreadable = {absPath(G_sb)}
    /\ pathListOf(files) = <<G_tc, G_td, G_sa>>
    /\ G_sa \in Range(docs[1].sourceFiles)
    /\ G_sb \in matchedBy(subfolders[1].additionalFiles[1])

(***************************************************************************)
(* Properties of belongsToSubfolder                                        *)
(***************************************************************************)
withSlashes(p) == [i \in 1..Len(p) |-> IF p[i] = "\\" THEN "/" ELSE p[i]]

\* the length of the subfolder path without its one trailing separator
cleanLength(d) == IF Len(d) > 0 /\ d[Len(d)] \in {"/", "\\"} THEN Len(d) - 1 ELSE Len(d)

\* the file path is the clean subfolder path, or goes on with "/" after it
isUnder(f, d) ==
    /\ Len(f) >= cleanLength(d)
    /\ \A i \in 1..cleanLength(d) : withSlashes(f)[i] = withSlashes(d)[i]
    /\ Len(f) = cleanLength(d) \/ withSlashes(f)[cleanLength(d) + 1] = "/"

\* C24: a file is put into the bucket of a subfolder only when its normalized
\* path is the normalized subfolder path without one trailing slash or goes
\* on with "/" after it, and a file that is under some subfolder in this
\* sense is put into a bucket; a path that only shares a string prefix with
\* the subfolder path is not put into its bucket.
C24_BelongsToSubfolder ==
    pc = "grouped" =>
        /\ \A k \in 1..Len(subfolders) : \A i \in 1..Len(grouped[k]) :
               isUnder(grouped[k][i].path, subfolders[k].path)
        /\ \A i \in 1..Len(files) :
               (\E k \in 1..Len(subfolders) : isUnder(files[i].path, subfolders[k].path))
                   <=> (\A j \in 1..Len(ungrouped) : ungrouped[j] # files[i])

C24_Witness ==
    /\ pc = "grouped"
    /\ pathListOf(files) = <<P_sx_c, P_t, P_s_p_e>>
    /\ pathListOf(subfolders) = <<D_s_sl, D_t>>
    /\ pathListOf(ungrouped) = <<P_sx_c>>
    /\ pathListOf(grouped[1]) = <<P_s_p_e>>
    /\ pathListOf(grouped[2]) = <<P_t>>

(***************************************************************************)
(* Properties of the order of the generation calls                         *)
(***************************************************************************)
\* the generation calls made for subfolders
subfolderCalls == SelectSeq(llmCalls, LAMBDA c : c.method = "generateDocumentation")

\* the generation calls that have neither returned nor thrown
outstanding == IF pending = UNDEFINED THEN 0 ELSE 1

\* C25: at most one generation call is outstanding; the calls made for
\* subfolders follow the order of the subfolders in the configuration; and
\* when a generation call starts, the document of every earlier call is on
\* disk.
C25_Sequential ==
    /\ [](/\ Len(llmCalls) - Len(written) \in {0, 1}
          /\ outstanding = 1 => Len(llmCalls) = Len(written) + 1
          /\ outstanding = 1 <=> pc \in {"awaitSubfolder", "awaitUngrouped", "awaitReadme"}
          /\ Len(llmCalls) > Len(written) => outstanding = 1 \/ pc = "failed")
    /\ [](~dryRun /\ pc \notin {"scan", "generate"} =>
             /\ Len(subfolderCalls) <= Len(subfoldersWithFiles)
             /\ \A i \in 1..Len(subfolderCalls) :
                   subfolderCalls[i].outputPath
                       = outputPathOfSubfolder(subfoldersWithFiles[i]))
    /\ [][Len(llmCalls') > Len(llmCalls) =>
             /\ outstanding = 0
             /\ Len(llmCalls') = Len(llmCalls) + 1
             /\ Len(written) = Len(llmCalls)
             /\ \A i \in 1..Len(llmCalls) :
                   /\ written[i].outputPath = llmCalls[i].outputPath
                   /\ isFile(disk, pathResolve(rootDir, llmCalls[i].outputPath))]_vars

C25_Witness ==
    /\ ~dryRun
    /\ pc = "awaitSubfolder"
    /\ pathListOf(subfolders) = <<D_t, D_s_sl>>
    /\ Len(llmCalls) = 2
    /\ llmCalls[1].outputPath = D_t \o <<SLASH>> \o README_MD
    /\ llmCalls[2].outputPath = G_docs_s
    /\ Len(written) = 1
    /\ written[1].outputPath = D_t \o <<SLASH>> \o README_MD

(***************************************************************************)
(* Properties of a run that scans no file                                  *)
(***************************************************************************)
\* C27: once the scan has found no file, the run exits with status 0 and
\* reports no error, the LLM service is never initialised, no generation
\* step runs (no position of generate() is taken, no doc, estimate or call
\* exists), and nothing is written.
C27_NoFilesEndsNormally ==
    /\ [](pc \notin {"load", "scan"} /\ validated # <<>> /\ Len(files) = 0 =>
             /\ pc \in {"scanned", "exited"}
             /\ ~llmService
             /\ next = 0
             /\ docs = <<>> /\ estimates = <<>> /\ llmCalls = <<>>
             /\ pending = UNDEFINED /\ total = UNDEFINED
             /\ written = <<>>
             /\ errors = <<>>
             /\ exitCode \in {UNDEFINED, Some(0)}
             /\ pc = "exited" <=> exitCode = Some(0))
    /\ [][pc = "scanned" /\ Len(files) = 0 =>
             pc' = "exited" /\ disk' = disk /\ exitCode' = Some(0)]_vars

C27_Witness ==
    /\ pc = "exited"
    /\ validated # <<>>
    /\ Len(files) = 0
    /\ ~dryRun
    /\ DOMAIN disk # {}
    /\ exitCode = Some(0)

(***************************************************************************)
(* Properties of the sourceFiles of a subfolder doc                        *)
(***************************************************************************)
noPathTwice(paths) == \A i, j \in 1..Len(paths) : i # j => paths[i] # paths[j]

\* the docs of the subfolders come first, one per subfolder with files
isSubfolderDoc(i) == i <= Len(docs) /\ i <= Len(subfoldersWithFiles)

\* C28: the sourceFiles of the doc of a subfolder name no path twice.
C28_SourceFilesDistinct ==
    pc \notin {"scan", "generate"} =>
        \A i \in 1..Len(docs) : isSubfolderDoc(i) => noPathTwice(docs[i].sourceFiles)

(***************************************************************************)
(* Properties of the choice of the pricing entry                           *)
(***************************************************************************)
\* the entries whose key is the model
exactKeys(model) == {k \in 1..Len(MODEL_PRICING) : MODEL_PRICING[k].key = model}

\* the entries whose lower-cased key contains the lower-cased model or is
\* contained in it
partialKeys(model) ==
    {k \in 1..Len(MODEL_PRICING) :
        \/ includes(toLowerCase(model), toLowerCase(MODEL_PRICING[k].key))
        \/ includes(toLowerCase(MODEL_PRICING[k].key), toLowerCase(model))}

firstOf(S) == CHOOSE k \in S : \A j \in S : k <= j

\* the estimate is priced with entry k of the table
pricedWith(e, k) ==
    /\ e.estimatedCost = Some(e.tokens * MODEL_PRICING[k].input)
    /\ e.contextWindow = Some(MODEL_PRICING[k].context)

\* C29: an estimate for a model that is a key of the pricing table is priced
\* with that entry; for any other model that matches some key by lower-cased
\* inclusion in either direction it is priced with the first such entry of
\* the table, whatever later entries match.
C29_PricingMatch ==
    \A i \in 1..Len(estimates) :
        /\ exactKeys(args[i].model) # {}
               => pricedWith(estimates[i], firstOf(exactKeys(args[i].model)))
        /\ exactKeys(args[i].model) = {} /\ partialKeys(args[i].model) # {}
               /\ args[i].model # <<>>
               => pricedWith(estimates[i], firstOf(partialKeys(args[i].model)))

C29_Witness ==
    /\ Len(estimates) = 2
    /\ args[1] = tokenInput(3, GPT_4O_MINI_DATED, TRUE)
    /\ partialKeys(GPT_4O_MINI_DATED) = {5, 6}
    /\ estimates[1].estimatedCost = Some(2 * 25000)
    /\ args[2] = tokenInput(3, GPT, TRUE)
    /\ partialKeys(GPT) = {5, 6}
    /\ estimates[2].estimatedCost = Some(2 * 1500)

(***************************************************************************)
(* Properties of generate() without an LLM service                         *)
(***************************************************************************)
\* C30: outside dry-run mode generate() without an LLM service fails as its
\* first step: no target is processed, no call is made, no doc or estimate
\* exists, and the disk never changes; in dry-run mode generate() without a
\* service enters the loop over the targets, never fails and never makes a
\* call.
C30_ServiceRequired ==
    /\ [](~dryRun /\ ~llmService =>
             /\ pc \in {"scan", "generate", "failed"}
             /\ next = 0
             /\ docs = <<>> /\ estimates = <<>> /\ total = UNDEFINED
             /\ llmCalls = <<>> /\ pending = UNDEFINED
             /\ written = <<>>)
    /\ [][~dryRun /\ ~llmService =>
             /\ disk' = disk
             /\ pc = "generate" => pc' = "failed"]_vars
    /\ [](dryRun /\ ~llmService => pc # "failed" /\ llmCalls = <<>> /\ pending = UNDEFINED)
    /\ [][dryRun /\ ~llmService /\ pc = "generate" =>
             pc' \in {"subfolder", "ungrouped"} /\ next' = 1]_vars

C30_Witness ==
    /\ pc = "failed"
    /\ ~dryRun /\ ~llmService
    /\ Len(files) = 4
    /\ Len(subfolders) = 2
    /\ Len(grouped[1]) > 0
    /\ docs = <<>> /\ written = <<>>

====
